---- MODULE Spec2Model ----
(***************************************************************************)
(* Session layer of the signal_trace front end: the Token Store            *)
(* (localStorage), the HTTP client (apiClient), the Session Controller     *)
(* (handleLogout) and the auth / prospects services built on them.         *)
(*                                                                         *)
(* JavaScript runs one event loop: the code between two awaits is one      *)
(* atomic step.  Every action below is such a segment.  A segment that     *)
(* neither reads nor writes shared state (localStorage, isLoggingOut, the  *)
(* page) is merged with the segment that follows it.                       *)
(***************************************************************************)
EXTENDS Integers, Sequences, FiniteSets, TLC

\* ------------------------------------------------------------------ bounds
MaxTasks == 2          \* logical tasks (service calls / handleLogout calls) per run
NumTokenPairs == 1     \* distinct token pairs the backend hands out

Tasks == 1..MaxTasks
Pairs == 1..NumTokenPairs

\* ------------------------------------------------------------------ values
NoToken == <<"null", 0>>                 \* localStorage.getItem(...) === null
Access(k) == <<"access", k>>
Refresh(k) == <<"refresh", k>>

NoHeader == <<"absent", NoToken>>        \* headers has no Authorization key
Bearer(token) == <<"Bearer", token>>     \* `Bearer ${token}`

NoData == [present |-> FALSE, tokens |-> 0]
Data(k) == [present |-> TRUE, tokens |-> k]   \* tokens = 0: data without tokens

Envelope(s, m, d, e) == [success |-> s, message |-> m, data |-> d, errors |-> e]

\* What an async function hands its caller besides an envelope.
None == [kind |-> "none"]
Threw == [kind |-> "threw"]              \* the promise rejected
NotJson == [kind |-> "notJson"]          \* a body response.json() cannot parse
Void == [kind |-> "void"]                \* Promise<void> resolved

\* Bodies the backend may answer with (it is opaque to the client).
Bodies ==
    {Envelope(TRUE, "ok", Data(k), "absent") : k \in Pairs}
      \cup {Envelope(TRUE, "ok", Data(0), "absent"),
            Envelope(FALSE, "failed", NoData, "field errors"),
            Envelope(FALSE, "failed", Data(1), "field errors")}

\* the client compares the status with 401 and with nothing else
Statuses == {200, 401}

\* what a settled fetch can carry: an error status comes with an envelope
\* that reports failure, or with a body that is not JSON
Answers ==
    {a \in Statuses \X (Bodies \cup {NotJson}) :
        a[1] = 401 => (a[2] = NotJson \/ ~a[2].success)}

\* ------------------------------------------------------------------ state
VARIABLES
    localStorage,   \* [access_token, refresh_token]
    isLoggingOut,   \* module-level flag of handleLogout
    resetTimers,    \* armed setTimeout(() => isLoggingOut = false, 1000) callbacks
    epoch,          \* history: how often the flag has been reset
    location,       \* window.location.href
    task,           \* the logical tasks
    window,         \* typeof window !== 'undefined'
    calls,          \* history: the direct calls of the Token Store functions
    otp,            \* the OTPVerification component
    page,           \* the ProspectsPage component
    probe           \* a form function under test: its input and its result

vars == <<localStorage, isLoggingOut, resetTimers, epoch, location, task,
          window, calls, otp, page, probe>>

\* the components of the interface and, where none of them is mounted,
\* what their variables hold
uiVars == <<otp, page, probe>>

sessionVars ==
    <<localStorage, isLoggingOut, resetTimers, epoch, location, task,
      window, calls>>

Unmounted == [kind |-> "unmounted"]

NoFx == [clears |-> 0, events |-> 0, toastExpired |-> 0, toastSuccess |-> 0,
         posts |-> 0, redirects |-> 0]

IdleTask ==
    [pc |-> "idle", op |-> "none", requireAuth |-> FALSE,
     authorization |-> NoHeader, inFlightWith |-> {},
     status |-> 0, body |-> None, result |-> None,
     showToast |-> FALSE, isAutomatic |-> FALSE, toastModule |-> "notAsked",
     refreshToken |-> NoToken, postBody |-> NoToken,
     postAuthorization |-> NoHeader,
     postStatus |-> 0, postOutcome |-> "none", postLogoutCalls |-> 0,
     logout |-> "notCalled", enteredAt |-> -1, steps |-> << >>, fx |-> NoFx]

\* ------------------------------------------------------------ Token Store
getAccessToken(ls) == ls.access_token

getRefreshToken(ls) == ls.refresh_token

\* (the two arguments stored under each other's key)
setTokensSwapped(ls, access, refresh) ==
    [ls EXCEPT !.access_token = refresh, !.refresh_token = access]

setTokens(ls, access, refresh) ==
    [ls EXCEPT !.access_token = access, !.refresh_token = refresh]

\* (only the access token removed)
clearTokensAccessOnly(ls) == [ls EXCEPT !.access_token = NoToken]

\* the storage part of clearTokens; the authStateChanged event is counted
\* by the action that calls it
clearTokens(ls) ==
    [ls EXCEPT !.access_token = NoToken, !.refresh_token = NoToken]

isAuthenticated(ls) == getAccessToken(ls) # NoToken

\* ------------------------------------------------------------ services
TokenOps == {"login", "verifySignupOTP", "verifyInactiveUserOTP"}

PublicOps ==
    TokenOps \cup {"signup", "resendOTP", "resendVerificationOTP",
                   "forgotPassword", "verifyPasswordResetOTP", "resetPassword"}

AuthOps ==
    {"getProfile", "updateProfile", "changePassword", "logout",
     "getProspects", "getProspect", "createProspect", "updateProspect",
     "patchProspect", "deleteProspect"}

AllOps == PublicOps \cup AuthOps

\* the requireAuth each service function passes to the client (default true)
RequireAuthOf(op) == op \notin PublicOps

\* (signup stores tokens like verifySignupOTP does)
PersistsTokensAlsoSignup(op) == op \in TokenOps \cup {"signup"}

\* the service functions that inspect the response for tokens
PersistsTokens(op) == op \in TokenOps

\* (the tokens stored without looking at success)
ShouldStoreIgnoringSuccess(response) ==
    response.data.present /\ response.data.tokens # 0

\* response.success && response.data?.tokens
ShouldStore(response) ==
    response.success /\ response.data.present /\ response.data.tokens # 0

\* ------------------------------------------------------------ HTTP client
\* (the refresh token sent as the bearer)
BuildAuthorizationFromRefresh(requireAuth, ls) ==
    IF requireAuth /\ getRefreshToken(ls) # NoToken
    THEN Bearer(getRefreshToken(ls))
    ELSE NoHeader

\* (the header added whenever a token is stored)
BuildAuthorizationAlways(requireAuth, ls) ==
    IF getAccessToken(ls) # NoToken
    THEN Bearer(getAccessToken(ls))
    ELSE NoHeader

BuildAuthorization(requireAuth, ls) ==
    IF requireAuth /\ getAccessToken(ls) # NoToken
    THEN Bearer(getAccessToken(ls))
    ELSE NoHeader

\* (every 401 intercepted, whatever requireAuth)
InterceptsEvery401(status, requireAuth) == status = 401

Intercepts401(status, requireAuth) == status = 401 /\ requireAuth

\* the older helper apiRequest builds the same header and intercepts nothing
apiRequestAuthorization(requireAuth, ls) ==
    IF requireAuth /\ getAccessToken(ls) # NoToken
    THEN Bearer(getAccessToken(ls))
    ELSE NoHeader

Intercepted(tk, status) ==
    tk.op # "apiRequest" /\ Intercepts401(status, tk.requireAuth)

\* (an envelope that lets a data field through)
SessionExpiredWithData ==
    Envelope(FALSE, "Your session has expired. Please sign in again.",
             Data(0), "detail: Authentication required")

SessionExpired ==
    Envelope(FALSE, "Your session has expired. Please sign in again.",
             NoData, "detail: Authentication required")

\* ------------------------------------------------------ Session Controller
\* (a guard that lets every call through)
GuardAlwaysPasses(flag) == TRUE

\* if (isLoggingOut) return
GuardPasses(flag) == ~flag

\* (the flag is never raised)
FlagStaysDown == FALSE

\* isLoggingOut = true
FlagOnEntry == TRUE

\* (the refresh token read once the store has been cleared)
RefreshTokenReadAfterClear(ls) == getRefreshToken(clearTokens(ls))

\* const refreshToken = getRefreshToken(), the statement before clearTokens()
RefreshTokenAtEntry(ls) == getRefreshToken(ls)

\* (the logout call made as an authenticated request)
LogoutPostRequiresAuth == TRUE

\* post('/api/auth/logout/', {...}, { requireAuth: false })
LogoutPostRequireAuth == FALSE

\* how the logout call ended, as the try/catch around it sees it: fetch
\* rejected, response.json() threw, or an envelope came back
PostOutcome(status, body) ==
    IF status = 0 THEN "rejected"
    ELSE IF body = NotJson THEN "unparseable"
    ELSE IF body.success THEN "ok" ELSE "failed"

\* what the caller of this handleLogout invocation gets once it resolves:
\* apiClient returns the fixed envelope, a direct caller gets undefined
ReturnOf(tk) == IF tk.op = "handleLogout" THEN Void ELSE SessionExpired

\* (the redirect without the finally block: no reset timer is armed)
RedirectWithoutFinally(t, tk) ==
    /\ location' = "/signin"
    /\ UNCHANGED resetTimers
    /\ task' = [task EXCEPT ![t] =
                  [tk EXCEPT !.pc = "done", !.fx.redirects = @ + 1,
                             !.steps = Append(@, "redirect"),
                             !.result = ReturnOf(tk)]]

\* window.location.href = '/signin'; finally arms the reset timer; resolve
RedirectAndReturn(t, tk) ==
    /\ location' = "/signin"
    /\ resetTimers' = resetTimers + 1
    /\ task' = [task EXCEPT ![t] =
                  [tk EXCEPT !.pc = "done", !.fx.redirects = @ + 1,
                             !.steps = Append(@, "redirect"),
                             !.result = ReturnOf(tk)]]

Suspend(t, tk, at) ==
    /\ task' = [task EXCEPT ![t] = [tk EXCEPT !.pc = at]]
    /\ UNCHANGED <<location, resetTimers>>

\* after the logout API block: the 500 ms delay when a toast was requested
AfterPost(t, tk) ==
    IF tk.showToast THEN Suspend(t, tk, "delay") ELSE RedirectAndReturn(t, tk)

\* after the toast block: the logout API block runs only with a refresh token
AfterToast(t, tk) ==
    IF tk.refreshToken # NoToken THEN Suspend(t, tk, "import") ELSE AfterPost(t, tk)

\* after clearTokens(): the toast block awaits getToast() when showToast
AfterClear(t, tk) ==
    IF tk.showToast THEN Suspend(t, tk, "toast") ELSE AfterToast(t, tk)

\* handleLogout(showToast, isAutomatic) from its entry to its first await,
\* invoked by the task whose record (so far) is tk
handleLogout(t, tk, showToast, isAutomatic) ==
    IF ~GuardPasses(isLoggingOut)
    THEN /\ task' = [task EXCEPT ![t] =
                       [tk EXCEPT !.pc = "done", !.logout = "noop",
                                  !.enteredAt = epoch, !.result = ReturnOf(tk)]]
         /\ UNCHANGED <<localStorage, isLoggingOut, resetTimers, location>>
    ELSE /\ isLoggingOut' = FlagOnEntry
         /\ localStorage' = clearTokens(localStorage)
         /\ AfterClear(t, [tk EXCEPT !.logout = "executed", !.enteredAt = epoch,
                                     !.showToast = showToast,
                                     !.isAutomatic = isAutomatic,
                                     !.refreshToken =
                                         RefreshTokenAtEntry(localStorage),
                                     !.steps = <<"read", "clear", "event">>,
                                     !.fx.clears = @ + 1, !.fx.events = @ + 1])

\* ------------------------------------------------------------------ actions
\* tasks are numbered in the order they are started
MayStart(t) ==
    /\ task[t].pc = "idle"
    /\ \A u \in Tasks : u < t => task[u].pc # "idle"

InFlight == {u \in Tasks : task[u].pc = "fetch"}

\* a service function is called: apiClient builds the headers and issues fetch
Call(t, op) ==
    /\ MayStart(t)
    /\ task' = [task EXCEPT ![t] =
                  [IdleTask EXCEPT !.pc = "fetch", !.op = op,
                      !.requireAuth = RequireAuthOf(op),
                      !.authorization =
                          BuildAuthorization(RequireAuthOf(op), localStorage),
                      !.inFlightWith = InFlight]]
    /\ UNCHANGED <<localStorage, isLoggingOut, resetTimers, epoch, location>>
    /\ UNCHANGED <<window, calls>>
    /\ UNCHANGED uiVars

\* apiRequest(endpoint, options, requireAuth) is called
CallApiRequest(t, requireAuth) ==
    /\ MayStart(t)
    /\ task' = [task EXCEPT ![t] =
                  [IdleTask EXCEPT !.pc = "fetch", !.op = "apiRequest",
                      !.requireAuth = requireAuth,
                      !.authorization =
                          apiRequestAuthorization(requireAuth, localStorage),
                      !.inFlightWith = InFlight]]
    /\ UNCHANGED <<localStorage, isLoggingOut, resetTimers, epoch, location>>
    /\ UNCHANGED <<window, calls>>
    /\ UNCHANGED uiVars

\* handleLogout is called directly (a sign-out control)
CallHandleLogout(t, showToast, isAutomatic) ==
    /\ MayStart(t)
    /\ handleLogout(t, [IdleTask EXCEPT !.op = "handleLogout"],
                    showToast, isAutomatic)
    /\ UNCHANGED epoch
    /\ UNCHANGED <<window, calls>>
    /\ UNCHANGED uiVars

\* fetch rejects (transport failure): the rejection reaches the caller
FetchRejects(t) ==
    /\ task[t].pc = "fetch"
    /\ task' = [task EXCEPT ![t].pc = "done", ![t].result = Threw]
    /\ UNCHANGED <<localStorage, isLoggingOut, resetTimers, epoch, location>>
    /\ UNCHANGED <<window, calls>>
    /\ UNCHANGED uiVars

\* fetch resolves with 401 on a requireAuth request: await handleLogout(true, true)
\* (the body is never read on this path)
Unauthorized(t, status, body) ==
    /\ task[t].pc = "fetch"
    /\ Intercepted(task[t], status)
    /\ handleLogout(t, [task[t] EXCEPT !.status = status], TRUE, TRUE)
    /\ UNCHANGED epoch
    /\ UNCHANGED <<window, calls>>
    /\ UNCHANGED uiVars

\* fetch resolves otherwise: response.json(), then the service function's
\* own continuation
Responded(t, status, body) ==
    /\ task[t].pc = "fetch"
    /\ ~Intercepted(task[t], status)
    /\ IF body = NotJson
       THEN /\ task' = [task EXCEPT ![t].pc = "done", ![t].status = status,
                                    ![t].body = body, ![t].result = Threw]
            /\ UNCHANGED localStorage
       ELSE IF PersistsTokens(task[t].op) /\ ShouldStore(body)
       THEN /\ localStorage' = setTokens(localStorage,
                                         Access(body.data.tokens),
                                         Refresh(body.data.tokens))
            /\ task' = [task EXCEPT ![t].pc = "done", ![t].status = status,
                                    ![t].body = body, ![t].result = body,
                                    ![t].fx.events = @ + 1]
       ELSE /\ task' = [task EXCEPT ![t].pc = "done", ![t].status = status,
                                    ![t].body = body, ![t].result = body]
            /\ UNCHANGED localStorage
    /\ UNCHANGED <<isLoggingOut, resetTimers, epoch, location>>
    /\ UNCHANGED <<window, calls>>
    /\ UNCHANGED uiVars

\* getToast() resolved: toastModule.error(...) or toastModule.success(...)
ShowToast(t) ==
    /\ task[t].pc = "toast"
    /\ AfterToast(t, IF task[t].isAutomatic
                     THEN [task[t] EXCEPT !.toastModule = "loaded",
                                          !.steps = Append(@, "toast"),
                                          !.fx.toastExpired = @ + 1]
                     ELSE [task[t] EXCEPT !.toastModule = "loaded",
                                          !.steps = Append(@, "toast"),
                                          !.fx.toastSuccess = @ + 1])
    /\ UNCHANGED <<localStorage, isLoggingOut, epoch>>
    /\ UNCHANGED <<window, calls>>
    /\ UNCHANGED uiVars

\* getToast() resolved null (import('react-hot-toast') failed): no toast
ToastUnavailable(t) ==
    /\ task[t].pc = "toast"
    /\ AfterToast(t, [task[t] EXCEPT !.toastModule = "null"])
    /\ UNCHANGED <<localStorage, isLoggingOut, epoch>>
    /\ UNCHANGED <<window, calls>>
    /\ UNCHANGED uiVars

\* import('@/lib/api/client') resolved: post('/api/auth/logout/',
\* {refresh_token: refreshToken}, {requireAuth: false}) issues its fetch
PostLogout(t) ==
    /\ task[t].pc = "import"
    /\ task' = [task EXCEPT ![t].pc = "logoutFetch", ![t].fx.posts = @ + 1,
                            ![t].steps = Append(@, "post"),
                            ![t].postBody = task[t].refreshToken,
                            ![t].postAuthorization =
                                BuildAuthorization(LogoutPostRequireAuth,
                                                   localStorage)]
    /\ UNCHANGED <<localStorage, isLoggingOut, resetTimers, epoch, location>>
    /\ UNCHANGED <<window, calls>>
    /\ UNCHANGED uiVars

\* import('@/lib/api/client') rejected and the catch block logged it; the
\* module is already loaded when apiClient itself called handleLogout
ClientImportFails(t) ==
    /\ task[t].pc = "import"
    /\ task[t].op = "handleLogout"
    /\ AfterPost(t, task[t])
    /\ UNCHANGED <<localStorage, isLoggingOut, epoch>>
    /\ UNCHANGED <<window, calls>>
    /\ UNCHANGED uiVars

\* the logout call settles (status 0: fetch rejected). apiClient would call
\* handleLogout for an intercepted 401 (counted in postLogoutCalls); it
\* throws when fetch rejected or the body is not JSON, and the catch block
\* logs that; its return value is dropped. handleLogout goes on either way.
LogoutPostSettles(t, status, body) ==
    /\ task[t].pc = "logoutFetch"
    /\ AfterPost(t, [task[t] EXCEPT
                        !.postStatus = status,
                        !.postOutcome = PostOutcome(status, body),
                        !.postLogoutCalls =
                            IF Intercepts401(status, LogoutPostRequireAuth)
                            THEN @ + 1 ELSE @])
    /\ UNCHANGED <<localStorage, isLoggingOut, epoch>>
    /\ UNCHANGED <<window, calls>>
    /\ UNCHANGED uiVars

\* the 500 ms timer fired
DelayElapsed(t) ==
    /\ task[t].pc = "delay"
    /\ RedirectAndReturn(t, task[t])
    /\ UNCHANGED <<localStorage, isLoggingOut, epoch>>
    /\ UNCHANGED <<window, calls>>
    /\ UNCHANGED uiVars

\* the 1000 ms timer armed in finally fired: isLoggingOut = false
ResetFlag ==
    /\ resetTimers > 0
    /\ isLoggingOut' = FALSE
    /\ resetTimers' = resetTimers - 1
    /\ epoch' = epoch + 1
    /\ UNCHANGED <<localStorage, location, task>>
    /\ UNCHANGED <<window, calls>>
    /\ UNCHANGED uiVars

\* ------------------------------------------------------------ specification
\* what an earlier page left in localStorage: nothing, or the pair (number 0)
\* of an earlier session
StoredAtLoad ==
    {[access_token |-> NoToken, refresh_token |-> NoToken],
     [access_token |-> Access(0), refresh_token |-> Refresh(0)]}

Init ==
    /\ localStorage \in StoredAtLoad
    /\ isLoggingOut = FALSE
    /\ resetTimers = 0
    /\ epoch = 0
    /\ location = "/"
    /\ task = [t \in Tasks |-> IdleTask]
    /\ window = TRUE
    /\ calls = << >>
    /\ otp = Unmounted /\ page = Unmounted /\ probe = Unmounted

\* the service calls of the concurrent specification: a call that stores
\* tokens, a public call that stores nothing, an authenticated call
ConcurrentOps == {"login", "signup", "getProspects"}

\* how the logout call can settle: any answer, or a rejected fetch
PostAnswers == Answers \cup {<<0, None>>}

Settles ==
    \/ \E t \in Tasks : FetchRejects(t)
    \/ \E t \in Tasks, a \in Answers : Unauthorized(t, a[1], a[2])
    \/ \E t \in Tasks, a \in Answers : Responded(t, a[1], a[2])

LogoutSteps ==
    \/ \E t \in Tasks : ShowToast(t)
    \/ \E t \in Tasks : ToastUnavailable(t)
    \/ \E t \in Tasks : ClientImportFails(t)
    \/ \E t \in Tasks : PostLogout(t)
    \/ \E t \in Tasks, a \in PostAnswers : LogoutPostSettles(t, a[1], a[2])
    \/ \E t \in Tasks : DelayElapsed(t)
    \/ ResetFlag

Next ==
    \/ \E t \in Tasks, op \in ConcurrentOps : Call(t, op)
    \/ \E t \in Tasks, showToast \in BOOLEAN :
          CallHandleLogout(t, showToast, FALSE)
    \/ Settles
    \/ LogoutSteps

Spec == Init /\ [][Next]_vars

\* The page under the claim's assumptions: every issued network call
\* resolves or rejects, every dynamic import settles, every timer fires.
NetworkSettles(t) ==
    \/ FetchRejects(t)
    \/ \E a \in Answers : Unauthorized(t, a[1], a[2])
    \/ \E a \in Answers : Responded(t, a[1], a[2])

\* whatever task t is waiting for (a task waits for one thing at a time)
Continues(t) ==
    \/ NetworkSettles(t)
    \/ ShowToast(t) \/ ToastUnavailable(t)
    \/ PostLogout(t) \/ ClientImportFails(t)
    \/ \E a \in PostAnswers : LogoutPostSettles(t, a[1], a[2])
    \/ DelayElapsed(t)

Fairness ==
    /\ \A t \in Tasks : WF_vars(Continues(t))
    /\ WF_vars(ResetFlag)

\* the calls that can start a logout sequence: an authenticated request
\* (through its 401, with the message) and a silent handleLogout
LogoutNext ==
    \/ \E t \in Tasks : Call(t, "getProspects")
    \/ \E t \in Tasks : CallHandleLogout(t, FALSE, FALSE)
    \/ Settles
    \/ LogoutSteps

FairSpec == Init /\ [][LogoutNext]_vars /\ Fairness

\* Every service function and apiRequest: the last task of a run is a call
\* of any of them, on a page whose earlier tasks logged in or signed out.
ServiceOps(t) == IF t = MaxTasks THEN AllOps ELSE {"login"}

ServiceNext ==
    \/ \E t \in Tasks : \E op \in ServiceOps(t) : Call(t, op)
    \/ \E requireAuth \in BOOLEAN : CallApiRequest(MaxTasks, requireAuth)
    \/ \E t \in Tasks, showToast \in BOOLEAN :
          CallHandleLogout(t, showToast, FALSE)
    \/ Settles
    \/ LogoutSteps

ServiceSpec == Init /\ [][ServiceNext]_vars

\* ------------------------------------------------------------------ claims
RECURSIVE SumFx(_, _)
SumFx(S, field) ==
    IF S = {} THEN 0
    ELSE LET t == CHOOSE x \in S : TRUE
         IN task[t].fx[field] + SumFx(S \ {t}, field)

\* the handleLogout invocations made while the flag had been reset e times
EnteredIn(e) == {t \in Tasks : task[t].enteredAt = e}

\* a service call through apiClient with requireAuth=true that received 401
Got401(t) ==
    /\ task[t].op \in AllOps
    /\ task[t].requireAuth
    /\ task[t].status = 401

Expired401s(e) == {t \in EnteredIn(e) : Got401(t)}

\* a finished logout sequence that one of the 401s of period e started
FinishedRunner(e, t) ==
    /\ t \in Expired401s(e)
    /\ task[t].logout = "executed"
    /\ task[t].pc = "done"

NoEffects(t) == task[t].logout = "noop" /\ task[t].fx = NoFx

\* the two requests were in flight at the same time
Overlap(i, j) == i \in task[j].inFlightWith \/ j \in task[i].inFlightWith

\* C1 as stated: when two or more requireAuth requests receive 401 within
\* one logout, the token clearing, the session-expired message, the POST to
\* /api/auth/logout/ and the redirect each happen exactly once in total.
C1_EachExactlyOnce ==
    \A e \in 0..MaxTasks : \A r \in Tasks :
        (FinishedRunner(e, r) /\ Cardinality(Expired401s(e)) >= 2)
            => /\ SumFx(EnteredIn(e), "clears") = 1
               /\ SumFx(EnteredIn(e), "toastExpired") = 1
               /\ SumFx(EnteredIn(e), "posts") = 1
               /\ SumFx(EnteredIn(e), "redirects") = 1

\* C1 amended: clearing and redirect happen exactly once in total; the
\* session-expired message exactly once when the toast module loads and not
\* at all otherwise; the POST exactly once when a refresh token was stored
\* as the logout began and not at all otherwise; none ever happens twice.
C1_NeverTwiceOnceWhenDue ==
    \A e \in 0..MaxTasks :
        /\ \A f \in {"clears", "toastExpired", "posts", "redirects"} :
               Expired401s(e) # {} => SumFx(EnteredIn(e), f) <= 1
        /\ \A r \in Tasks :
            (FinishedRunner(e, r) /\ Cardinality(Expired401s(e)) >= 2)
                => /\ SumFx(EnteredIn(e), "clears") = 1
                   /\ SumFx(EnteredIn(e), "redirects") = 1
                   /\ SumFx(EnteredIn(e), "toastExpired") =
                          (IF task[r].toastModule = "loaded" THEN 1 ELSE 0)
                   /\ SumFx(EnteredIn(e), "posts") =
                          (IF task[r].refreshToken # NoToken THEN 1 ELSE 0)

C1_Witness ==
    \E r \in Tasks :
        /\ FinishedRunner(0, r)
        /\ Cardinality(Expired401s(0)) >= 2
        /\ SumFx(EnteredIn(0), "posts") = 1
        /\ SumFx(EnteredIn(0), "toastExpired") = 1
        /\ SumFx(EnteredIn(0), "clears") = 1
        /\ SumFx(EnteredIn(0), "redirects") = 1

\* C2 as stated: of two requireAuth requests in flight together that both
\* receive 401, whatever the delay between the responses, the later one to
\* invoke handleLogout is a guarded no-op without any side effect.
C2_SecondAlwaysNoOp ==
    \A i, j \in Tasks :
        (i # j /\ Overlap(i, j) /\ Got401(i) /\ Got401(j)
              /\ task[i].enteredAt >= 0 /\ task[j].enteredAt >= 0)
            => /\ task[i].enteredAt < task[j].enteredAt => NoEffects(j)
               /\ task[i].enteredAt = task[j].enteredAt
                      => NoEffects(i) \/ NoEffects(j)

\* C2 amended: the same, provided isLoggingOut was not reset between the
\* two invocations of handleLogout (the reset timer fires 1000 ms after the
\* first sequence ended).
C2_SecondNoOpUntilReset ==
    \A i, j \in Tasks :
        (i # j /\ Overlap(i, j) /\ Got401(i) /\ Got401(j)
              /\ task[i].enteredAt >= 0
              /\ task[i].enteredAt = task[j].enteredAt)
            => NoEffects(i) \/ NoEffects(j)

C2_Witness ==
    \E i, j \in Tasks :
        /\ i # j /\ Overlap(i, j) /\ Got401(i) /\ Got401(j)
        /\ task[i].enteredAt = task[j].enteredAt
        /\ task[i].logout = "executed" /\ task[i].fx.redirects = 1
        /\ NoEffects(j) /\ task[j].pc = "done"

\* some invocation of handleLogout other than t's has begun its sequence
\* and has not completed
SequenceRunning(t) ==
    \E u \in Tasks \ {t} : task[u].logout = "executed" /\ task[u].pc # "done"

\* C3: a handleLogout invoked while an earlier invocation has not completed
\* returns at once and clears nothing, shows nothing, calls no endpoint and
\* redirects nowhere; at most one invocation is ever inside the sequence.
C3_ReentryIsNoOp ==
    /\ [][\A t \in Tasks :
            (task[t].logout = "notCalled" /\ task'[t].logout # "notCalled"
                  /\ SequenceRunning(t))
                => /\ task'[t].pc = "done"
                   /\ task'[t].fx = NoFx
                   /\ localStorage' = localStorage
                   /\ location' = location
                   /\ resetTimers' = resetTimers
                   /\ \A u \in Tasks \ {t} : task'[u] = task[u]]_vars
    /\ [](Cardinality({u \in Tasks : task[u].logout = "executed"
                                       /\ task[u].pc # "done"}) <= 1)

C3_Witness ==
    \E t \in Tasks :
        /\ task[t].op = "handleLogout" /\ NoEffects(t) /\ task[t].pc = "done"
        /\ SequenceRunning(t)

EmptyStore == [access_token |-> <<"null", 0>>, refresh_token |-> <<"null", 0>>]

\* C4 as stated: when an automatic logout started by a 401 finishes (the
\* redirect is initiated and apiClient returns), the Token Store holds
\* neither token, whatever else was in flight.
C4_StoreEmptyWhenLogoutFinishes ==
    [][\A t \in Tasks :
          (task[t].pc # "done" /\ task'[t].pc = "done"
                /\ task'[t].op \in AllOps /\ task'[t].requireAuth
                /\ task'[t].status = 401 /\ task'[t].fx.redirects = 1)
              => localStorage' = EmptyStore]_vars

TheEnvelope ==
    [success |-> FALSE,
     message |-> "Your session has expired. Please sign in again.",
     data |-> [present |-> FALSE, tokens |-> 0],
     errors |-> "detail: Authentication required"]

\* C5: every apiClient request with requireAuth=true that received 401
\* returns exactly {success:false, message:'Your session has expired.
\* Please sign in again.', errors:{detail:'Authentication required'}}, no
\* data field, whether its handleLogout ran the sequence or was a no-op.
C5_FixedEnvelope ==
    \A t \in Tasks :
        (task[t].pc = "done" /\ Got401(t)) => task[t].result = TheEnvelope

C5_Witness ==
    \E i, j \in Tasks :
        /\ Got401(i) /\ task[i].pc = "done" /\ task[i].logout = "executed"
        /\ Got401(j) /\ task[j].pc = "done" /\ task[j].logout = "noop"
        /\ task[i].result = TheEnvelope /\ task[j].result = TheEnvelope

\* a request is issued in this step by task t
Issues(t) == task[t].pc = "idle" /\ task'[t].pc = "fetch"

\* C6: a request made with requireAuth=true carries Authorization: Bearer
\* <token>, <token> being the stored access token as the headers are built,
\* and carries no Authorization header when no access token is stored.
C6_BearerOfStoredToken ==
    [][\A t \in Tasks :
          (Issues(t) /\ task'[t].requireAuth)
              => task'[t].authorization =
                    (IF localStorage.access_token # <<"null", 0>>
                     THEN <<"Bearer", localStorage.access_token>>
                     ELSE <<"absent", <<"null", 0>>>>)]_vars

C6_Witness ==
    \E t \in Tasks :
        /\ task[t].pc = "fetch" /\ task[t].requireAuth
        /\ task[t].op = "updateProfile"
        /\ task[t].authorization = <<"Bearer", <<"access", 1>>>>

NinePublicOps ==
    {"login", "signup", "verifySignupOTP", "resendOTP",
     "verifyInactiveUserOTP", "resendVerificationOTP", "forgotPassword",
     "verifyPasswordResetOTP", "resetPassword"}

\* C7: a request made with requireAuth=false carries no Authorization
\* header even when an access token is stored, and the nine public
\* auth-service operations are all made with requireAuth=false.
C7_PublicCarriesNoHeader ==
    \A t \in Tasks :
        /\ (task[t].pc # "idle" /\ task[t].op # "handleLogout"
                /\ ~task[t].requireAuth)
              => task[t].authorization = <<"absent", <<"null", 0>>>>
        /\ task[t].op \in NinePublicOps
              => /\ ~task[t].requireAuth
                 /\ task[t].authorization = <<"absent", <<"null", 0>>>>
        /\ task[t].fx.posts > 0
              => task[t].postAuthorization = <<"absent", <<"null", 0>>>>

C7_Witness ==
    \E t \in Tasks :
        /\ task[t].op = "resetPassword" /\ task[t].pc = "fetch"
        /\ localStorage.access_token # <<"null", 0>>
        /\ task[t].authorization = <<"absent", <<"null", 0>>>>

TokenStoringOps == {"login", "verifySignupOTP", "verifyInactiveUserOTP"}

HasTokens(r) ==
    /\ r \notin {None, Threw, Void}
    /\ r.success /\ r.data.present /\ r.data.tokens # 0

\* C8: when login, verifySignupOTP or verifyInactiveUserOTP gets an answer
\* with success=true and data.tokens, then as it returns the Token Store
\* holds access=tokens.access and refresh=tokens.refresh, and the call has
\* dispatched authStateChanged exactly once.
C8_TokensStoredAndAnnounced ==
    [][\A t \in Tasks :
          (task[t].pc = "fetch" /\ task'[t].pc = "done"
                /\ task[t].op \in TokenStoringOps
                /\ HasTokens(task'[t].result))
              => /\ localStorage' =
                        [access_token |->
                             <<"access", task'[t].result.data.tokens>>,
                         refresh_token |->
                             <<"refresh", task'[t].result.data.tokens>>]
                 /\ task'[t].fx.events = 1]_vars

C8_Witness ==
    \E t \in Tasks :
        /\ task[t].op = "verifyInactiveUserOTP" /\ task[t].pc = "done"
        /\ HasTokens(task[t].result)
        /\ localStorage = [access_token |-> <<"access", 1>>,
                           refresh_token |-> <<"refresh", 1>>]
        /\ task[t].fx.events = 1

\* a step that puts a token into the Token Store
WritesToken ==
    \/ /\ localStorage'.access_token # localStorage.access_token
       /\ localStorage'.access_token # <<"null", 0>>
    \/ /\ localStorage'.refresh_token # localStorage.refresh_token
       /\ localStorage'.refresh_token # <<"null", 0>>

\* C9: a token is written to the Token Store only as login,
\* verifySignupOTP or verifyInactiveUserOTP receives success=true with
\* data.tokens; no other operation ever sets one.
C9_OnlyTokenOpsWrite ==
    [][WritesToken
          => \E t \in Tasks :
                /\ task[t].op \in TokenStoringOps
                /\ task[t].pc = "fetch" /\ task'[t].pc = "done"
                /\ HasTokens(task'[t].result)]_vars

C9_Witness ==
    \E t, u \in Tasks :
        /\ task[t].op = "signup" /\ task[t].pc = "done"
        /\ HasTokens(task[t].result)
        /\ task[u].op = "login" /\ task[u].pc = "done"
        /\ HasTokens(task[u].result)
        /\ localStorage.access_token = <<"access", 1>>

C11_FailureLeavesStoreAlone ==
    [][\A t \in Tasks :
          (task[t].pc = "fetch" /\ task'[t].pc = "done"
                /\ task[t].op \in TokenStoringOps
                /\ task'[t].body \notin {None, NotJson}
                /\ ~HasTokens(task'[t].body))
              => /\ task'[t].result = task'[t].body
                 /\ localStorage' = localStorage
                 /\ task'[t].fx.events = 0]_vars

C11_Witness ==
    \E t \in Tasks :
        /\ task[t].op = "verifySignupOTP" /\ task[t].pc = "done"
        /\ task[t].result = Envelope(FALSE, "failed", Data(1), "field errors")
        /\ task[t].fx.events = 0
        /\ localStorage = [access_token |-> <<"access", 0>>,
                           refresh_token |-> <<"refresh", 0>>]

\* the place of a step in the order the claim gives
Rank(step) ==
    CASE step = "read" -> 1
      [] step = "clear" -> 2
      [] step = "event" -> 3
      [] step = "toast" -> 4
      [] step = "post" -> 5
      [] step = "redirect" -> 6

InOrder(steps) ==
    \A i, j \in 1..Len(steps) : i < j => Rank(steps[i]) < Rank(steps[j])

Did(tk, step) == \E i \in 1..Len(tk.steps) : tk.steps[i] = step

\* handleLogout passes its guard in this step, invoked by task t
Enters(t) == task[t].logout = "notCalled" /\ task'[t].logout = "executed"

\* C12: an executing logout sequence reads the refresh token, clears the
\* Token Store (firing the change notification), shows the optional
\* message, POSTs to /api/auth/logout/ only if a refresh token had been
\* stored, and redirects to /signin, in this order; the POST body is the
\* refresh token stored before the clear; the notification precedes the
\* server call and the redirect.
C12_StepsInOrder ==
    [][\A t \in Tasks :
          /\ Enters(t) =>
                /\ task'[t].refreshToken = localStorage.refresh_token
                /\ localStorage' = EmptyStore
          /\ task'[t].logout = "executed" =>
                /\ Len(task'[t].steps) >= 3
                /\ SubSeq(task'[t].steps, 1, 3) = <<"read", "clear", "event">>
                /\ InOrder(task'[t].steps)
                /\ Did(task'[t], "toast") => task'[t].showToast
                /\ Did(task'[t], "post") =>
                      /\ task'[t].refreshToken # <<"null", 0>>
                      /\ task'[t].postBody = task'[t].refreshToken
                /\ task'[t].pc = "done" => Did(task'[t], "redirect")]_vars

C12_Witness ==
    \E t \in Tasks :
        /\ task[t].pc = "done"
        /\ task[t].steps =
              <<"read", "clear", "event", "toast", "post", "redirect">>
        /\ task[t].postBody = <<"refresh", 0>>

\* C13: the logout endpoint call of handleLogout is made with
\* requireAuth=false: it carries no Authorization header, and a 401 answer
\* to it does not invoke handleLogout again.
C13_LogoutPostNotIntercepted ==
    \A t \in Tasks :
        task[t].fx.posts > 0 =>
            /\ task[t].postAuthorization = <<"absent", <<"null", 0>>>>
            /\ task[t].postLogoutCalls = 0

C13_Witness ==
    \E t \in Tasks :
        /\ task[t].pc = "done" /\ task[t].fx.posts = 1
        /\ task[t].postStatus = 401
        /\ task[t].postLogoutCalls = 0
        /\ task[t].postAuthorization = <<"absent", <<"null", 0>>>>
        /\ task[t].fx.clears = 1 /\ task[t].fx.redirects = 1

FailedPost(tk) == tk.postOutcome \in {"rejected", "unparseable", "failed"}

\* the messages handleLogout has shown are those of its toast block
OnlyTheToastBlockMessage(tk) ==
    /\ tk.fx.toastExpired =
          (IF tk.toastModule = "loaded" /\ tk.isAutomatic THEN 1 ELSE 0)
    /\ tk.fx.toastSuccess =
          (IF tk.toastModule = "loaded" /\ ~tk.isAutomatic THEN 1 ELSE 0)

\* C14 as stated: when the POST to the logout endpoint fails (fetch
\* rejects, the body cannot be parsed, or the backend reports an error),
\* handleLogout still redirects to /signin, the tokens stay cleared, it
\* resolves without throwing and shows no message for that failure.
C14_FailedPostStillLogsOut ==
    [][\A t \in Tasks :
          (task[t].pc # "done" /\ task'[t].pc = "done"
                /\ task'[t].logout = "executed" /\ FailedPost(task'[t]))
              => /\ task'[t].fx.redirects = 1
                 /\ location' = "/signin"
                 /\ task'[t].result # Threw
                 /\ OnlyTheToastBlockMessage(task'[t])
                 /\ localStorage' = EmptyStore]_vars

\* the parts of C14 that do not depend on what other tasks store
C14_FailureSwallowed ==
    [][\A t \in Tasks :
          /\ (task[t].pc = "logoutFetch" /\ task'[t].pc # "logoutFetch")
                => /\ localStorage' = localStorage
                   /\ task'[t].pc \in {"delay", "done"}
          /\ (task'[t].pc = "done" /\ task'[t].logout = "executed"
                /\ FailedPost(task'[t]))
                => /\ task'[t].fx.redirects = 1
                   /\ location' = "/signin"
                   /\ task'[t].result # Threw
                   /\ OnlyTheToastBlockMessage(task'[t])]_vars

\* C15: every handleLogout invocation that passes the guard eventually
\* initiates the redirect to /signin and afterwards isLoggingOut goes back
\* to false (timers fire, network calls settle); isLoggingOut is never
\* reset before the redirect has been initiated and never stays true forever.
C15_RedirectsThenIdle ==
    /\ \A t \in Tasks :
          (task[t].logout = "executed") ~> (task[t].fx.redirects = 1)
    /\ isLoggingOut ~> ~isLoggingOut
    /\ [][(isLoggingOut /\ ~isLoggingOut') =>
             \A t \in Tasks :
                 task[t].logout = "executed" => task[t].fx.redirects = 1]_vars

C15_Witness ==
    \E t \in Tasks :
        /\ task[t].logout = "executed" /\ task[t].fx.redirects = 1
        /\ location = "/signin"
        /\ ~isLoggingOut /\ epoch = 1 /\ resetTimers = 0

\* C16: wherever control can pass to another logical task, the access
\* token and the refresh token are both present or both absent: setTokens
\* writes both and clearTokens removes both within one step.
C16_BothOrNeither ==
    (localStorage.access_token = <<"null", 0>>)
        <=> (localStorage.refresh_token = <<"null", 0>>)

C16_Witness ==
    \E i, j \in Tasks :
        /\ task[i].fx.clears = 1
        /\ task[j].op = "login" /\ task[j].pc = "done" /\ HasTokens(task[j].result)
        /\ localStorage.access_token = <<"access", 1>>
        /\ localStorage.refresh_token = <<"refresh", 1>>

\* ------------------------------------------- the Token Store on its own
\* The exported functions of the Token Store called one after another, in
\* a browser (window = TRUE) or where there is no window.
MaxCalls == 3

\* (clearTokens leaving the refresh token in place)
ClearTokensBodyOneRemoved ==
    <<"removeItem access_token", "dispatchEvent authStateChanged">>

\* (clearTokens announcing before it removes)
ClearTokensBodyDispatchFirst ==
    <<"dispatchEvent authStateChanged", "removeItem access_token",
      "removeItem refresh_token">>

\* the statements of clearTokens after its window guard
ClearTokensBody ==
    <<"removeItem access_token", "removeItem refresh_token",
      "dispatchEvent authStateChanged">>

\* one statement: st.ls is localStorage, st.seen what the listeners of
\* authStateChanged (run synchronously by dispatchEvent) found in it
Statement(stmt, st) ==
    CASE stmt = "removeItem access_token" ->
            [st EXCEPT !.ls.access_token = NoToken]
      [] stmt = "removeItem refresh_token" ->
            [st EXCEPT !.ls.refresh_token = NoToken]
      [] stmt = "dispatchEvent authStateChanged" ->
            [st EXCEPT !.events = @ + 1, !.seen = Append(@, st.ls)]

RECURSIVE Exec(_, _)
Exec(stmts, st) ==
    IF stmts = << >> THEN st
    ELSE Exec(Tail(stmts), Statement(Head(stmts), st))

Untouched(ls) == [ls |-> ls, events |-> 0, seen |-> << >>]

getAccessTokenIn(w, ls) == IF ~w THEN NoToken ELSE getAccessToken(ls)

getRefreshTokenIn(w, ls) == IF ~w THEN NoToken ELSE getRefreshToken(ls)

\* (setTokens without its window guard)
setTokensUnguarded(w, ls, access, refresh) == setTokens(ls, access, refresh)

setTokensIn(w, ls, access, refresh) ==
    IF ~w THEN ls ELSE setTokens(ls, access, refresh)

clearTokensIn(w, ls) ==
    IF ~w THEN Untouched(ls) ELSE Exec(ClearTokensBody, Untouched(ls))

isAuthenticatedIn(w, ls) == getAccessTokenIn(w, ls) # NoToken

CallRecord(fn, returned, after, events, seen) ==
    [fn |-> fn, returned |-> returned, before |-> localStorage,
     after |-> after, events |-> events, seen |-> seen]

\* a function that only reads is called
Reads(fn, returned) ==
    /\ Len(calls) < MaxCalls
    /\ calls' = Append(calls, CallRecord(fn, returned, localStorage, 0, << >>))
    /\ UNCHANGED <<localStorage, isLoggingOut, resetTimers, epoch, location,
                   task, window>>
    /\ UNCHANGED uiVars

GetsAccessToken ==
    Reads("getAccessToken", getAccessTokenIn(window, localStorage))

GetsRefreshToken ==
    Reads("getRefreshToken", getRefreshTokenIn(window, localStorage))

AsksIsAuthenticated ==
    Reads("isAuthenticated", isAuthenticatedIn(window, localStorage))

SetsTokens(k) ==
    /\ Len(calls) < MaxCalls
    /\ localStorage' = setTokensIn(window, localStorage, Access(k), Refresh(k))
    /\ calls' = Append(calls, CallRecord("setTokens", Void, localStorage',
                                         0, << >>))
    /\ UNCHANGED <<isLoggingOut, resetTimers, epoch, location, task, window>>
    /\ UNCHANGED uiVars

ClearsTokens ==
    /\ Len(calls) < MaxCalls
    /\ LET st == clearTokensIn(window, localStorage)
       IN /\ localStorage' = st.ls
          /\ calls' = Append(calls, CallRecord("clearTokens", Void, st.ls,
                                               st.events, st.seen))
    /\ UNCHANGED <<isLoggingOut, resetTimers, epoch, location, task, window>>
    /\ UNCHANGED uiVars

StoreInit ==
    /\ localStorage \in StoredAtLoad
    /\ isLoggingOut = FALSE
    /\ resetTimers = 0
    /\ epoch = 0
    /\ location = "/"
    /\ task = [t \in Tasks |-> IdleTask]
    /\ window \in BOOLEAN
    /\ calls = << >>
    /\ otp = Unmounted /\ page = Unmounted /\ probe = Unmounted

StoreNext ==
    \/ GetsAccessToken
    \/ GetsRefreshToken
    \/ AsksIsAuthenticated
    \/ \E k \in Pairs : SetsTokens(k)
    \/ ClearsTokens

StoreSpec == StoreInit /\ [][StoreNext]_vars

Called(i, fn) == calls[i].fn = fn

\* no setTokens call lies between call i and call j
NoneStoredBetween(i, j) ==
    \A k \in 1..Len(calls) : (i < k /\ k < j) => ~Called(k, "setTokens")

\* C17: after clearTokens, getAccessToken and getRefreshToken return null
\* and isAuthenticated returns false, whatever was stored before, until
\* the next token-persisting operation.
C17_ClearedReadsAbsent ==
    \A i, j \in 1..Len(calls) :
        (i < j /\ Called(i, "clearTokens") /\ NoneStoredBetween(i, j)) =>
            /\ Called(j, "getAccessToken") => calls[j].returned = <<"null", 0>>
            /\ Called(j, "getRefreshToken") => calls[j].returned = <<"null", 0>>
            /\ Called(j, "isAuthenticated") => calls[j].returned = FALSE

C17_Witness ==
    /\ window
    /\ Len(calls) = 3
    /\ Called(1, "clearTokens") /\ calls[1].before # EmptyStore
    /\ Called(2, "getRefreshToken") /\ calls[2].returned = <<"null", 0>>
    /\ Called(3, "isAuthenticated") /\ calls[3].returned = FALSE

\* C18: in a browser every clearTokens call removes both tokens and emits
\* exactly one authStateChanged, also when nothing was stored; the event is
\* dispatched after both removals, so its listeners read no token.
C18_ClearRemovesThenAnnounces ==
    window =>
        \A i \in 1..Len(calls) :
            Called(i, "clearTokens") =>
                /\ calls[i].after = EmptyStore
                /\ calls[i].events = 1
                /\ calls[i].seen = <<EmptyStore>>

C18_Witness ==
    /\ window
    /\ \E i, j \in 1..Len(calls) :
          /\ Called(i, "clearTokens") /\ calls[i].before # EmptyStore
          /\ Called(j, "clearTokens") /\ calls[j].before = EmptyStore
          /\ calls[i].events = 1 /\ calls[j].events = 1

\* C19: without a window, getAccessToken and getRefreshToken return null,
\* setTokens and clearTokens write nothing and dispatch nothing, and
\* isAuthenticated is false.
C19_NoWindowDegrades ==
    ~window =>
        \A i \in 1..Len(calls) :
            /\ Called(i, "getAccessToken") => calls[i].returned = <<"null", 0>>
            /\ Called(i, "getRefreshToken") => calls[i].returned = <<"null", 0>>
            /\ Called(i, "isAuthenticated") => calls[i].returned = FALSE
            /\ calls[i].after = calls[i].before
            /\ calls[i].events = 0

C19_Witness ==
    /\ ~window
    /\ Len(calls) = 3
    /\ Called(1, "setTokens") /\ calls[1].after = calls[1].before
    /\ Called(2, "clearTokens") /\ calls[2].events = 0
    /\ calls[2].before # EmptyStore
    /\ Called(3, "getAccessToken") /\ calls[3].returned = <<"null", 0>>

\* ------------------------------------------------------- prospects page
\* The handlers of the prospects page, from the point where their service
\* call has settled with result r: the toast each of them shows.
NoToast == <<"none", "">>

Toast(kind, text) == <<kind, text>>

\* the page handler that awaits the service function
Handler(op) ==
    CASE op = "getProspects" -> "fetchProspects"
      [] op = "deleteProspect" -> "handleDelete"
      [] op \in {"createProspect", "updateProspect"} -> "handleFormSubmit"
      [] OTHER -> "none"

\* response.message?.includes('session has expired')
MentionsExpiry(message) ==
    message = "Your session has expired. Please sign in again."

\* fetchProspects: the list is taken from a success with data; a failure
\* is toasted unless its message mentions the expired session
fetchProspects(r) ==
    IF r = Threw THEN Toast("error", "Failed to fetch prospects")
    ELSE IF r.success /\ r.data.present THEN NoToast
    ELSE IF MentionsExpiry(r.message) THEN NoToast
    ELSE Toast("error", r.message)

\* handleDelete (after confirm()): every failure is toasted
handleDelete(r) ==
    IF r = Threw THEN Toast("error", "An error occurred. Please try again.")
    ELSE IF r.success THEN Toast("success", r.message)
    ELSE Toast("error", r.message)

\* handleFormSubmit: a failure's errors go back to ProspectForm, which
\* renders them under its own fields only
handleFormSubmit(r) ==
    IF r = Threw THEN Toast("error", "An error occurred. Please try again.")
    ELSE IF r.success THEN Toast("success", r.message)
    ELSE NoToast

ComponentToast(op, r) ==
    CASE Handler(op) = "fetchProspects" -> fetchProspects(r)
      [] Handler(op) = "handleDelete" -> handleDelete(r)
      [] Handler(op) = "handleFormSubmit" -> handleFormSubmit(r)
      [] OTHER -> NoToast

\* C20 as stated: when the authenticated request of fetchProspects,
\* handleDelete or handleFormSubmit receives 401, the component surfaces
\* no error of its own: the only notification is the session-expired
\* message of the logout sequence.
C20_ComponentStaysSilent ==
    \A t \in Tasks :
        (task[t].pc = "done" /\ Got401(t) /\ Handler(task[t].op) # "none")
            => ComponentToast(task[t].op, task[t].result) = NoToast

\* the part of C20 that holds: the two handlers other than handleDelete
C20_FetchAndFormStaySilent ==
    \A t \in Tasks :
        (task[t].pc = "done" /\ Got401(t)
            /\ Handler(task[t].op) \in {"fetchProspects", "handleFormSubmit"})
            => ComponentToast(task[t].op, task[t].result) = NoToast

\* ------------------------------------------------------------ sign-in form
\* Texts are sequences of words, so that String.includes can be computed.
Includes(text, sub) ==
    \E i \in 0..(Len(text) - Len(sub)) :
        \A j \in 1..Len(sub) : text[i + j] = sub[j]

NotVerifiedText == <<"Account", "is", "not", "verified">>

OtherText == <<"Invalid", "credentials">>

Texts == {NotVerifiedText, OtherText}

\* a value of the errors object: missing, a string, or a list of strings
Absent == [shape |-> "absent", items |-> << >>]

Str(text) == [shape |-> "string", items |-> <<text>>]

List(texts) == [shape |-> "list", items |-> texts]

ErrorValues == {Absent} \cup {Str(x) : x \in Texts} \cup {List(<<x>>) : x \in Texts}

NoErrors == [present |-> FALSE, requires_verification |-> FALSE,
             non_field_errors |-> Absent, email |-> Absent, password |-> Absent]

LoginErrors ==
    {NoErrors} \cup
    [present : {TRUE}, requires_verification : BOOLEAN,
     non_field_errors : ErrorValues,
     email : {Absent, Str(OtherText), List(<<OtherText>>)},
     password : {Absent, Str(OtherText)}]

\* what auth.login can resolve with
LoginResponses ==
    [success : BOOLEAN, data : BOOLEAN, message : {"", "Unable to log in"},
     errors : LoginErrors]

\* Array.isArray(v) ? v[0] : v, for a value that is present
FirstOrItself(v) == v.items[1]

\* response.errors?.requires_verification || (response.errors?.non_field_errors
\*   && typeof ... === 'string' && ....includes('not verified'))
NeedsVerification(errors) ==
    \/ errors.requires_verification
    \/ /\ errors.non_field_errors.shape = "string"
       /\ Includes(errors.non_field_errors.items[1], <<"not", "verified">>)

\* the fieldErrors object loginUser builds
LoginFieldErrors(errors) ==
    [email |-> IF errors.email.shape = "absent" THEN <<>>
               ELSE FirstOrItself(errors.email),
     password |-> IF errors.password.shape = "absent" THEN <<>>
                  ELSE FirstOrItself(errors.password),
     non_field_errors |->
         IF errors.non_field_errors.shape = "absent" THEN <<>>
         ELSE FirstOrItself(errors.non_field_errors)]

NoFieldErrors == [email |-> <<>>, password |-> <<>>, non_field_errors |-> <<>>]

Or(message, fallback) == IF message = "" THEN fallback ELSE message

\* loginUser from the point where auth.login has settled with r (Threw: it
\* rejected); setLoading(true) and setErrors({}) ran before the call
loginUser(r) ==
    IF r = Threw
    THEN [loading |-> FALSE, errors |-> NoFieldErrors, push |-> "none",
          toast |-> Toast("error", "An error occurred. Please try again."),
          uncaught |-> FALSE]
    ELSE IF r.success /\ r.data
    THEN [loading |-> FALSE, errors |-> NoFieldErrors, push |-> "/profile",
          toast |-> Toast("success", Or(r.message, "Login successful")),
          uncaught |-> FALSE]
    ELSE IF NeedsVerification(r.errors)
    THEN [loading |-> FALSE, errors |-> NoFieldErrors, push |-> "/verify?email",
          toast |-> Toast("error", "Your account is not verified. Please verify your email with the OTP code."),
          uncaught |-> FALSE]
    ELSE [loading |-> FALSE, errors |-> LoginFieldErrors(r.errors),
          push |-> "none",
          toast |-> Toast("error", Or(r.message,
                          "Login failed. Please check your credentials.")),
          uncaught |-> FALSE]

Pending == [kind |-> "pending"]

SigninInit ==
    /\ localStorage \in StoredAtLoad
    /\ isLoggingOut = FALSE /\ resetTimers = 0 /\ epoch = 0
    /\ location = "/signin"
    /\ task = [t \in Tasks |-> IdleTask]
    /\ window = TRUE /\ calls = << >>
    /\ otp = Unmounted /\ page = Unmounted
    /\ probe \in [fn : {"loginUser"}, input : LoginResponses \cup {Threw},
                  out : {Pending}]

\* auth.login settles and loginUser runs to its end
LoginSettles ==
    /\ probe.fn = "loginUser" /\ probe.out = Pending
    /\ probe' = [probe EXCEPT !.out = loginUser(probe.input)]
    /\ UNCHANGED <<sessionVars, otp, page>>

SigninSpec == SigninInit /\ [][LoginSettles]_vars

\* the errors of a login response report an unverified account
ReportsUnverified(errors) ==
    \/ errors.requires_verification
    \/ \E i \in 1..Len(errors.non_field_errors.items) :
          Includes(errors.non_field_errors.items[i], <<"not", "verified">>)

\* C22 as stated: on a failed login whose errors report an unverified
\* account (requires_verification set, or a non-field error containing
\* 'not verified') the form redirects to the OTP verification page for the
\* entered email and shows no generic error: no field errors are set and
\* the login-failed toast is not shown.
C22_UnverifiedRedirects ==
    (/\ probe.fn = "loginUser" /\ probe.out # Pending
     /\ probe.input # Threw)
        => ((~probe.input.success /\ ReportsUnverified(probe.input.errors))
              => /\ probe.out.push = "/verify?email"
                 /\ probe.out.errors = NoFieldErrors
                 /\ probe.out.toast[2] =
                      "Your account is not verified. Please verify your email with the OTP code.")

\* the part of C22 that holds: requires_verification, or a non-field error
\* that is a string
C22_StringFormRedirects ==
    (/\ probe.fn = "loginUser" /\ probe.out # Pending
     /\ probe.input # Threw)
        => ((~probe.input.success
              /\ (\/ probe.input.errors.requires_verification
                  \/ probe.input.errors.non_field_errors = Str(NotVerifiedText)))
              => /\ probe.out.push = "/verify?email"
                 /\ probe.out.errors = NoFieldErrors)

\* ------------------------------------------------- OTPVerification component
\* useState(['', '', '', '', '', '']): six slots; useState(60): the cooldown
CodeLength == 6

Cooldown == 60

\* a string is the sequence of its characters
DigitChars == {"0", "1", "2", "3", "4", "5", "6", "7", "8", "9"}

\* (a test that lets a letter through)
IsDigitOrLetter(c) == c \in DigitChars \cup {"x"}

\* /^\d$/.test(char)
IsDigit(c) == c \in DigitChars

Slots == 1..CodeLength

ClearedSlots == [k \in Slots |-> << >>]

\* otp.join('')
Join(slots) ==
    slots[1] \o slots[2] \o slots[3] \o slots[4] \o slots[5] \o slots[6]

Min(a, b) == IF a < b THEN a ELSE b

\* the paste branch: value.slice(0, 6).split('').forEach(...), index from 1
Paste(slots, index, pasted) ==
    [k \in Slots |->
        IF k >= index /\ k - index + 1 <= Len(pasted)
              /\ IsDigit(pasted[k - index + 1])
        THEN <<pasted[k - index + 1]>>
        ELSE slots[k]]

\* handleOtpChange(index, value): the new value of otp
handleOtpChange(slots, index, value) ==
    IF Len(value) > 1
    THEN Paste(slots, index, SubSeq(value, 1, Min(CodeLength, Len(value))))
    ELSE IF value # << >> /\ ~IsDigit(value[1]) THEN slots
    ELSE [slots EXCEPT ![index] = value]

\* (the code left in place by a successful resend)
SlotsKeptAfterResend(slots) == slots

\* setOtp(['', '', '', '', '', '']) of a successful resend
SlotsAfterResend(slots) == ClearedSlots

\* (the effect arming its timer only above 1)
TimerNeededAboveOne(countdown) == countdown > 1

\* if (countdown > 0) of the countdown effect
TimerNeeded(countdown) == countdown > 0

NoRequest == [fn |-> "none", code |-> << >>]

\* the component as mounted
Mounted(otpType, signupData) ==
    [slots |-> ClearedSlots, countdown |-> Cooldown, canResend |-> FALSE,
     effectDue |-> TRUE, timer |-> FALSE,
     loading |-> FALSE, resendLoading |-> FALSE, verify |-> NoRequest,
     otpType |-> otpType, signupData |-> signupData,
     toast |-> NoToast, push |-> "none", last |-> "mount", ticks |-> 0]

\* the component once its cooldown has run out with nothing typed
CooledDown(otpType, signupData) ==
    [Mounted(otpType, signupData) EXCEPT
        !.countdown = 0, !.canResend = TRUE, !.effectDue = FALSE,
        !.last = "effect", !.ticks = Cooldown]

\* what the user can type or paste into a slot
TypedValues ==
    {<< >>, <<"7">>, <<"x">>, <<"7", "x", "7">>,
     <<"7", "7", "7", "7", "7", "7", "7">>}

\* history: last is the handler or callback that ran last (to the point
\* where it awaits or ends), toast and push what it showed and where it
\* navigated, ticks the timer ticks since the mount or the last reset
Ran(o, handler) ==
    [o EXCEPT !.toast = NoToast, !.push = "none", !.last = handler]

\* onChange of slot index
OtpChange(index, value) ==
    /\ otp # Unmounted
    /\ otp' = [Ran(otp, "handleOtpChange") EXCEPT
                  !.slots = handleOtpChange(otp.slots, index, value)]
    /\ UNCHANGED <<sessionVars, page, probe>>

\* the request handleSubmit issues for a complete code
VerifyRequest(o, code) ==
    IF o.otpType = "signup" /\ o.signupData
    THEN [fn |-> "verifySignupOTP", code |-> code]
    ELSE IF o.otpType = "password_reset"
    THEN [fn |-> "verifyPasswordResetOTP", code |-> code]
    ELSE NoRequest

\* handleSubmit up to its await; with no request it ends here (finally)
SubmitClicked ==
    /\ otp # Unmounted /\ ~otp.loading
    /\ LET code == Join(otp.slots)
           request == VerifyRequest(otp, code)
       IN IF Len(code) # CodeLength
          THEN otp' = [Ran(otp, "handleSubmit") EXCEPT
                  !.toast = Toast("error",
                                  "Please enter a valid 6-digit OTP code"),
                  !.loading = FALSE]
          ELSE otp' = [Ran(otp, "handleSubmit") EXCEPT !.verify = request,
                                  !.loading = (request # NoRequest)]
    /\ UNCHANGED <<sessionVars, page, probe>>

\* handleSubmit after its await: r is the envelope, or Threw
AfterVerify(o, r) ==
    IF r = Threw
    THEN [o EXCEPT !.toast = Toast("error", "An error occurred. Please try again."),
                   !.slots = ClearedSlots, !.loading = FALSE,
                   !.verify = NoRequest]
    ELSE IF ~r.success
    THEN [o EXCEPT !.toast = Toast("error", r.message),
                   !.slots = ClearedSlots, !.loading = FALSE,
                   !.verify = NoRequest]
    ELSE IF o.verify.fn = "verifySignupOTP"
    THEN [o EXCEPT !.toast = Toast("success", r.message),
                   !.push = IF r.data.present /\ r.data.tokens # 0
                            THEN "/profile" ELSE "/signin",
                   !.loading = FALSE, !.verify = NoRequest]
    ELSE [o EXCEPT !.toast = Toast("success", "OTP verified successfully"),
                   !.push = "/resetpassword?email&otp",
                   !.loading = FALSE, !.verify = NoRequest]

VerifySettles(r) ==
    /\ otp # Unmounted /\ otp.verify # NoRequest
    /\ otp' = AfterVerify(Ran(otp, "verified"), r)
    /\ UNCHANGED <<sessionVars, page, probe>>

\* the Resend OTP button, rendered when canResend, disabled when resendLoading
ResendClicked ==
    /\ otp # Unmounted /\ otp.canResend /\ ~otp.resendLoading
    /\ otp' = [Ran(otp, "handleResendOTP") EXCEPT !.resendLoading = TRUE]
    /\ UNCHANGED <<sessionVars, page, probe>>

\* handleResendOTP after its await; a changed countdown re-runs the effect
\* (its cleanup clears the timer)
AfterResend(o, r) ==
    IF r = Threw
    THEN [o EXCEPT !.toast = Toast("error", "An error occurred. Please try again."),
                   !.resendLoading = FALSE]
    ELSE IF ~r.success
    THEN [o EXCEPT !.toast = Toast("error", r.message),
                   !.resendLoading = FALSE]
    ELSE [o EXCEPT !.toast = Toast("success",
                       "OTP resent successfully. Please check your email."),
                   !.countdown = Cooldown, !.canResend = FALSE,
                   !.slots = SlotsAfterResend(o.slots),
                   !.effectDue = IF o.countdown # Cooldown THEN TRUE ELSE @,
                   !.timer = IF o.countdown # Cooldown THEN FALSE ELSE @,
                   !.ticks = 0,
                   !.resendLoading = FALSE]

ResendSettles(r) ==
    /\ otp # Unmounted /\ otp.resendLoading
    /\ otp' = AfterResend(Ran(otp, "resent"), r)
    /\ UNCHANGED <<sessionVars, page, probe>>

\* useEffect(..., [countdown]): arm the one-second timer, or allow resend
CountdownEffect ==
    /\ otp # Unmounted /\ otp.effectDue
    /\ otp' = IF TimerNeeded(otp.countdown)
              THEN [Ran(otp, "effect") EXCEPT
                        !.effectDue = FALSE, !.timer = TRUE]
              ELSE [Ran(otp, "effect") EXCEPT
                        !.effectDue = FALSE, !.canResend = TRUE]
    /\ UNCHANGED <<sessionVars, page, probe>>

\* the timer fires: setCountdown(countdown - 1)
Tick ==
    /\ otp # Unmounted /\ otp.timer
    /\ otp' = [Ran(otp, "tick") EXCEPT
                  !.countdown = @ - 1, !.timer = FALSE, !.effectDue = TRUE,
                  !.ticks = @ + 1]
    /\ UNCHANGED <<sessionVars, page, probe>>

OtpModes == {"signup", "password_reset"}

OtpInitWith(states) ==
    /\ localStorage \in StoredAtLoad
    /\ isLoggingOut = FALSE /\ resetTimers = 0 /\ epoch = 0
    /\ location = "/verify"
    /\ task = [t \in Tasks |-> IdleTask]
    /\ window = TRUE /\ calls = << >>
    /\ page = Unmounted /\ probe = Unmounted
    /\ otp \in states

\* entering and verifying a code, before and after the cooldown has run out
OtpInit ==
    OtpInitWith({Mounted(m, d) : m \in OtpModes, d \in BOOLEAN}
                  \cup {CooledDown(m, d) : m \in OtpModes, d \in BOOLEAN})

OtpNext ==
    \/ \E index \in Slots, value \in TypedValues : OtpChange(index, value)
    \/ SubmitClicked
    \/ \E r \in Bodies \cup {Threw} : VerifySettles(r)
    \/ ResendClicked
    \/ \E r \in Bodies \cup {Threw} : ResendSettles(r)

OtpSpec == OtpInit /\ [][OtpNext]_vars

\* the cooldown from the mount on
CooldownInit == OtpInitWith({Mounted("signup", TRUE)})

CooldownNext ==
    \/ CountdownEffect
    \/ Tick
    \/ ResendClicked
    \/ \E r \in Bodies \cup {Threw} : ResendSettles(r)
    \/ OtpChange(1, <<"7">>)

CooldownSpec == CooldownInit /\ [][CooldownNext]_vars

ResentToast ==
    <<"success", "OTP resent successfully. Please check your email.">>

\* handleResendOTP has just run to its end
Resent == otp # Unmounted /\ otp.last = "resent"

WasReset ==
    /\ otp.countdown = 60 /\ ~otp.canResend
    /\ \A k \in Slots : otp.slots[k] = << >>

\* C23 as stated: resending the OTP (handleResendOTP) resets the countdown
\* to 60, disables resend again and empties all six code slots.
C23_ResendResets == Resent => WasReset

\* C23, amended: a resend that succeeded (auth.resendOTP resolved with
\* success=true) resets the countdown to 60, disables resend again and
\* empties all six code slots.
C23_SuccessfulResendResets ==
    (Resent /\ otp.toast = ResentToast) => WasReset

C23_Witness ==
    /\ Resent /\ otp.toast = ResentToast /\ WasReset
    /\ otp.verify.fn = "verifySignupOTP"

\* C24: the countdown starts at 60, goes down by exactly 1 per tick and
\* never below 0; canResend is true only where the countdown is 0, so a
\* resend request is issued only after 60 ticks since the mount or since
\* the previous successful resend.
C24_CooldownBeforeResend ==
    /\ [](otp.countdown \in 0..60)
    /\ [](otp.canResend => otp.countdown = 0)
    /\ [](otp.last = "mount" => otp.countdown = 60)
    /\ [][/\ otp'.last = "tick" => otp'.countdown = otp.countdown - 1
          /\ otp'.countdown # otp.countdown =>
                \/ otp'.last = "tick"
                \/ otp'.last = "resent" /\ otp'.toast = ResentToast
                      /\ otp'.countdown = 60
          /\ otp'.last = "handleResendOTP" =>
                otp.ticks >= 60 /\ otp.canResend]_vars

C24_Witness ==
    /\ otp # Unmounted
    /\ otp.last = "handleResendOTP" /\ otp.resendLoading
    /\ otp.countdown = 0 /\ otp.ticks = 60

AllDigits(code) == \A i \in 1..Len(code) : code[i] \in DigitChars

\* C26: whatever is typed, pasted, deleted, resent or rejected, each slot
\* holds nothing or exactly one decimal digit; a verification request
\* carries a code of exactly six decimal digits, and a submit with fewer
\* than six filled slots sends no request.
C26_SlotsHoldDigits ==
    /\ [](\A k \in Slots :
            \/ otp.slots[k] = << >>
            \/ Len(otp.slots[k]) = 1 /\ otp.slots[k][1] \in DigitChars)
    /\ [](otp.verify.fn # "none" =>
            Len(otp.verify.code) = 6 /\ AllDigits(otp.verify.code))
    /\ [][(otp'.last = "handleSubmit"
             /\ \E k \in Slots : otp.slots[k] = << >>)
            => otp'.verify.fn = "none"]_vars

C26_Witness ==
    /\ otp # Unmounted
    /\ otp.last = "handleSubmit" /\ otp.verify.fn = "none"
    /\ otp.slots[1] = <<"7">> /\ otp.slots[2] = << >> /\ otp.slots[3] = <<"7">>
    /\ otp.toast = <<"error", "Please enter a valid 6-digit OTP code">>

\* the verification call of a mode
VerifyCallOf(otpType) ==
    IF otpType = "signup" THEN "verifySignupOTP" ELSE "verifyPasswordResetOTP"

\* C27 as stated: submitting a complete six-digit code issues exactly one
\* verification request in every mode, with or without signupData
\* (verifySignupOTP for 'signup', verifyPasswordResetOTP for
\* 'password_reset'); a failed verification clears all six slots, and the
\* loading flag always ends false.
C27_SubmitVerifiesOnce ==
    otp # Unmounted =>
        /\ (otp.last = "handleSubmit" /\ Len(Join(otp.slots)) = 6) =>
              otp.verify = [fn |-> VerifyCallOf(otp.otpType),
                            code |-> Join(otp.slots)]
        /\ (otp.last = "verified" /\ otp.toast[1] = "error") =>
              \A k \in Slots : otp.slots[k] = << >>
        /\ (otp.last = "verified") => ~otp.loading
        /\ (otp.last = "handleSubmit" /\ otp.verify.fn = "none") => ~otp.loading

\* the part of C27 that holds: password_reset, and signup with signupData
C27_SubmitVerifiesWithData ==
    otp # Unmounted =>
        /\ (otp.last = "handleSubmit" /\ Len(Join(otp.slots)) = 6
              /\ (otp.otpType = "password_reset" \/ otp.signupData)) =>
              otp.verify = [fn |-> VerifyCallOf(otp.otpType),
                            code |-> Join(otp.slots)]
        /\ (otp.last = "verified" /\ otp.toast[1] = "error") =>
              \A k \in Slots : otp.slots[k] = << >>
        /\ (otp.last = "verified") => ~otp.loading
        /\ (otp.last = "handleSubmit" /\ otp.verify.fn = "none") => ~otp.loading

\* ------------------------------------------------ ProspectsPage component
\* requests the page issues in one run, and the prospects it can list
MaxRequests == 5

ProspectIds == {1, 2}

\* what a prospects service call can resolve with; Threw: it rejected
PageResults ==
    {Threw, SessionExpired,
     Envelope(TRUE, "ok", Data(0), "absent"),
     Envelope(TRUE, "ok", NoData, "absent"),
     Envelope(FALSE, "failed", NoData, "field errors")}

\* useState(true), useState([]), useState(false), useState(null); requests
\* are numbered in the order they are issued; prospectsList.from is the
\* request whose response is on display (0: the initial []); formAwaits is
\* the request the mounted ProspectForm awaits (0: its loading is false)
PageMounted ==
    [loading |-> TRUE, prospectsList |-> [from |-> 0, length |-> 0],
     showForm |-> FALSE, editingProspect |-> 0, formAwaits |-> 0,
     inFlight |-> {}, issued |-> 0, effectDue |-> TRUE,
     latest |-> [id |-> 0, outcome |-> "none"],
     last |-> "mount", toast |-> NoToast, push |-> "none",
     returned |-> <<"undefined">>]

PageDid(pg, handler) ==
    [pg EXCEPT !.last = handler, !.toast = NoToast, !.push = "none"]

Request(id, fn, target) == [id |-> id, fn |-> fn, target |-> target]

\* fetchProspects up to its await: setLoading(true), getProspects()
StartFetch(pg) ==
    [pg EXCEPT !.loading = TRUE,
               !.inFlight = @ \cup {Request(pg.issued + 1, "getProspects", 0)},
               !.issued = @ + 1,
               !.latest = [id |-> pg.issued + 1, outcome |-> "pending"]]

\* what the page renders: the Loader, the list or the form
Renders(pg) ==
    IF pg.loading /\ pg.prospectsList.length = 0 THEN "Loader"
    ELSE IF ~pg.showForm THEN "ProspectsList" ELSE "ProspectForm"

\* ProspectForm's loading state lives in the mounted form only
Rendered(pg) ==
    IF Renders(pg) # "ProspectForm" THEN [pg EXCEPT !.formAwaits = 0] ELSE pg

\* the mount effect: redirect when not authenticated, fetch otherwise
MountEffect ==
    /\ page # Unmounted /\ page.effectDue
    /\ page' = IF ~isAuthenticated(localStorage)
               THEN [PageDid(page, "effect") EXCEPT !.effectDue = FALSE,
                                                !.push = "/signin"]
               ELSE StartFetch([PageDid(page, "effect") EXCEPT !.effectDue = FALSE])
    /\ UNCHANGED <<sessionVars, otp, probe>>

\* fetchProspects after its await
AfterFetch(pg, id, r, length) ==
    LET shown == IF r # Threw /\ r.success /\ r.data.present
                 THEN [pg EXCEPT !.prospectsList =
                                     [from |-> id, length |-> length]]
                 ELSE pg
    IN [shown EXCEPT
          !.toast = fetchProspects(r),
          !.loading = FALSE,
          !.latest = IF pg.latest.id = id
                     THEN [id |-> id,
                           outcome |-> IF shown = pg THEN "failed" ELSE "ok"]
                     ELSE @]

Settled(pg, q) == [pg EXCEPT !.inFlight = @ \ {q}]

FetchSettles(q, r, length) ==
    /\ page # Unmounted /\ q \in page.inFlight /\ q.fn = "getProspects"
    /\ page' = Rendered(AfterFetch(Settled(PageDid(page, "fetched"), q),
                                   q.id, r, length))
    /\ UNCHANGED <<sessionVars, otp, probe>>

\* the rows of ProspectsList (hidden while loading)
RowsShown(pg) ==
    Renders(pg) = "ProspectsList" /\ ~pg.loading /\ pg.prospectsList.length > 0

handleCreate ==
    /\ page # Unmounted /\ Renders(page) = "ProspectsList"
    /\ page' = [PageDid(page, "handleCreate") EXCEPT
                  !.editingProspect = 0, !.showForm = TRUE]
    /\ UNCHANGED <<sessionVars, otp, probe>>

handleEdit(prospect) ==
    /\ page # Unmounted /\ RowsShown(page)
    /\ page' = [PageDid(page, "handleEdit") EXCEPT
                  !.editingProspect = prospect, !.showForm = TRUE]
    /\ UNCHANGED <<sessionVars, otp, probe>>

handleFormCancel ==
    /\ page # Unmounted /\ Renders(page) = "ProspectForm" /\ page.formAwaits = 0
    /\ page' = [PageDid(page, "handleFormCancel") EXCEPT
                  !.editingProspect = 0, !.showForm = FALSE]
    /\ UNCHANGED <<sessionVars, otp, probe>>

Mutations(pg) == {q \in pg.inFlight : q.fn # "getProspects"}

\* a request whose success refetches needs room for that fetch
Room(pg) == pg.issued + Cardinality(Mutations(pg)) + 2 <= MaxRequests

Issue(pg, fn, target) ==
    [pg EXCEPT !.inFlight = @ \cup {Request(pg.issued + 1, fn, target)},
               !.issued = @ + 1]

\* handleDelete(id) with confirm() answered yes, up to its await
DeleteClicked(id) ==
    /\ page # Unmounted /\ RowsShown(page) /\ Room(page)
    /\ page' = Issue(PageDid(page, "handleDelete"), "deleteProspect", id)
    /\ UNCHANGED <<sessionVars, otp, probe>>

DeleteSettles(q, r) ==
    /\ page # Unmounted /\ q \in page.inFlight /\ q.fn = "deleteProspect"
    /\ LET pg == [Settled(PageDid(page, "deleted"), q) EXCEPT
                     !.toast = handleDelete(r)]
       IN page' = Rendered(IF r # Threw /\ r.success THEN StartFetch(pg)
                           ELSE pg)
    /\ UNCHANGED <<sessionVars, otp, probe>>

\* (createProspect whatever is being edited)
SubmitAlwaysCreates(editingProspect) == <<"createProspect", 0>>

\* editingProspect ? updateProspect(editingProspect.id, data)
\*                 : createProspect(data)
SubmitCall(editingProspect) ==
    IF editingProspect # 0 THEN <<"updateProspect", editingProspect>>
    ELSE <<"createProspect", 0>>

\* ProspectForm.handleSubmit and handleFormSubmit up to the await
FormSubmitted ==
    /\ page # Unmounted /\ Renders(page) = "ProspectForm"
    /\ page.formAwaits = 0 /\ Room(page)
    /\ LET call == SubmitCall(page.editingProspect)
       IN page' = [Issue(PageDid(page, "handleFormSubmit"), call[1], call[2])
                      EXCEPT !.formAwaits = page.issued + 1,
                             !.returned = <<"undefined">>]
    /\ UNCHANGED <<sessionVars, otp, probe>>

\* handleFormSubmit after its await, then ProspectForm's setLoading(false)
FormSettles(q, r) ==
    /\ page # Unmounted /\ q \in page.inFlight
    /\ q.fn \in {"createProspect", "updateProspect"}
    /\ LET pg == [Settled(PageDid(page, "formSettled"), q) EXCEPT
                     !.toast = handleFormSubmit(r),
                     !.formAwaits = IF @ = q.id THEN 0 ELSE @]
       IN page' = Rendered(
            IF r = Threw THEN [pg EXCEPT !.returned = <<"map", "empty">>]
            ELSE IF r.success
            THEN StartFetch([pg EXCEPT !.showForm = FALSE,
                                       !.editingProspect = 0])
            ELSE [pg EXCEPT !.returned = <<"map", r.errors>>])
    /\ UNCHANGED <<sessionVars, otp, probe>>

PageInit ==
    /\ localStorage \in StoredAtLoad
    /\ isLoggingOut = FALSE /\ resetTimers = 0 /\ epoch = 0
    /\ location = "/prospects"
    /\ task = [t \in Tasks |-> IdleTask]
    /\ window = TRUE /\ calls = << >>
    /\ otp = Unmounted /\ probe = Unmounted
    /\ page = PageMounted

Requests ==
    {Request(id, fn, target) :
        id \in 1..MaxRequests,
        fn \in {"getProspects", "deleteProspect", "createProspect",
                "updateProspect"},
        target \in {0} \cup ProspectIds}

PageNext ==
    \/ MountEffect
    \/ \E q \in Requests, r \in PageResults, length \in {0, 1} :
          FetchSettles(q, r, length)
    \/ handleCreate
    \/ \E prospect \in ProspectIds : handleEdit(prospect)
    \/ handleFormCancel
    \/ \E id \in ProspectIds : DeleteClicked(id)
    \/ \E q \in Requests, r \in PageResults : DeleteSettles(q, r)
    \/ FormSubmitted
    \/ \E q \in Requests, r \in PageResults : FormSettles(q, r)

PageSpec == PageInit /\ [][PageNext]_vars

Fetches(pg) == {q \in pg.inFlight : q.fn = "getProspects"}

\* C25 (first part): once no getProspects request is outstanding and the
\* most recently issued fetch delivered a list, that list is the one on
\* display
C25_LatestOnDisplay ==
    page.latest.outcome = "ok" /\ Fetches(page) = {}
        => page.prospectsList.from = page.latest.id

\* C25 (second part): loading is false only when no fetch is in flight
C25_LoadingWhileFetching == ~page.loading => Fetches(page) = {}

\* C25: after all outstanding getProspects requests have settled the list on
\* display is the response of the most recently issued fetch, and loading
\* is false only when no fetch is in flight
C25_LatestFetchWins == C25_LatestOnDisplay /\ C25_LoadingWhileFetching

FormSettled == page'.last = "formSettled" /\ page' # page

Refetched ==
    /\ page'.issued = page.issued + 1
    /\ Request(page'.issued, "getProspects", 0) \in page'.inFlight

\* C28: handleFormSubmit calls updateProspect with the id of the prospect
\* being edited exactly when an editing target is set and createProspect
\* otherwise; when the call succeeds the form is closed, the editing target
\* cleared and the list fetched again; when it fails or throws, showForm,
\* the editing target and the list on display are left as they were, no
\* request is issued and a field-error map is returned to the form
C28_FormSubmitFrame ==
    /\ [](page.last = "handleFormSubmit" =>
            LET q == CHOOSE q \in page.inFlight : q.id = page.issued
            IN /\ page.editingProspect # 0
                    <=> q.fn = "updateProspect"
                        /\ q.target = page.editingProspect
               /\ page.editingProspect = 0 <=> q.fn = "createProspect")
    /\ [][FormSettled =>
            IF page'.toast[1] = "success"
            THEN /\ ~page'.showForm
                 /\ page'.editingProspect = 0
                 /\ Refetched
            ELSE /\ page'.showForm = page.showForm
                 /\ page'.editingProspect = page.editingProspect
                 /\ page'.prospectsList = page.prospectsList
                 /\ page'.issued = page.issued
                 /\ page'.returned[1] = "map"]_vars

\* the form never closes while its own submission is pending, so a failed
\* submission leaves it open
C28_FailureLeavesFormOpen ==
    [][FormSettled /\ page'.toast[1] # "success" /\ page.formAwaits # 0
          => page'.showForm]_vars

\* an update of prospect 2 has failed with field errors
C28_Witness ==
    /\ page.last = "formSettled"
    /\ page.toast = NoToast
    /\ page.showForm /\ page.editingProspect = 2
    /\ page.returned = <<"map", "field errors">>
    /\ page.prospectsList.from = 1


\* ------------------------------------------------------------ sign-up form
\* elements of a list value of the errors object
MaxItems == 2

FieldKeys == {"email", "password"}

Num == [shape |-> "number", items |-> << >>]

Null == [shape |-> "null", items |-> << >>]

Undefined == [shape |-> "undefined", items |-> << >>]

\* an object: its entries in the order Object.keys gives them
Obj(entries) == [shape |-> "object", items |-> entries]

Lists == {List(items) : items \in UNION {[1..n -> Texts] : n \in 0..MaxItems}}

Strings == {Str(x) : x \in Texts}

Entries == [key : {"code", "detail"}, value : Strings \cup Lists]

Objects ==
    {Obj(<< >>)} \cup {Obj(<<e>>) : e \in Entries}
    \cup {Obj(<<p[1], p[2]>>) :
             p \in {q \in Entries \X Entries :
                       q[1].key # q[2].key /\ q[2].value \in Strings}}

\* the values a field of response.errors can have
SignupErrorValues == Lists \cup Strings \cup Objects \cup {Num, Null}

\* response.errors: values by field name (no key at all: errors is missing
\* or empty)
SignupErrors ==
    UNION {[keys -> SignupErrorValues] : keys \in SUBSET {"email"}}
    \cup {[k \in FieldKeys |-> IF k = "email" THEN v ELSE w] :
             v \in SignupErrorValues, w \in {Str(OtherText), List(<< >>), Num}}

\* (the last element instead of the first)
ElementLast(items) ==
    IF Len(items) = 0 THEN Undefined ELSE Str(items[Len(items)])

\* errorValue[0]
Element0(items) == IF Len(items) = 0 THEN Undefined ELSE Str(items[1])

\* errorValue[Object.keys(errorValue)[0]]
UnderFirstKey(entries) ==
    IF Len(entries) = 0 THEN Undefined ELSE entries[1].value

\* the three branches of the forEach callback
HasMessageShape(v) == v.shape \in {"list", "string", "object"}

FieldMessage(v) ==
    CASE v.shape = "list" -> Element0(v.items)
      [] v.shape = "string" -> v
      [] v.shape = "object" ->
            LET nested == UnderFirstKey(v.items)
            IN IF nested.shape = "list" THEN Element0(nested.items)
               ELSE nested

\* the fieldErrors object SignUp.handleSubmit builds from response.errors
SignupFieldErrors(errors) ==
    [key \in {k \in DOMAIN errors : HasMessageShape(errors[k])} |->
        FieldMessage(errors[key])]

SignupInit ==
    /\ localStorage \in StoredAtLoad
    /\ isLoggingOut = FALSE /\ resetTimers = 0 /\ epoch = 0
    /\ location = "/signup"
    /\ task = [t \in Tasks |-> IdleTask]
    /\ window = TRUE /\ calls = << >>
    /\ otp = Unmounted /\ page = Unmounted
    /\ probe \in [fn : {"SignUp.handleSubmit"}, input : SignupErrors,
                  out : {Pending}]

\* auth.register has resolved with success false and these errors:
\* setErrors(fieldErrors)
SignupFails ==
    /\ probe.fn = "SignUp.handleSubmit" /\ probe.out = Pending
    /\ probe' = [probe EXCEPT !.out = SignupFieldErrors(probe.input)]
    /\ UNCHANGED <<sessionVars, otp, page>>

SignupSpec == SignupInit /\ [][SignupFails]_vars

SignupMapped == probe.fn = "SignUp.handleSubmit" /\ probe.out # Pending

\* C29: on a failed signup a field whose error value is a list gets the
\* list's first element, a string gets itself, a nested object gets the value
\* under its first key (the first element if that is a list); exactly the
\* fields whose value has one of these shapes are in the map, so a field
\* absent from errors gets no message. An empty list or object has no first
\* element: the field is then mapped to undefined.
C29_OneMessagePerField ==
    SignupMapped =>
        LET errors == probe.input
            messages == probe.out
        IN /\ DOMAIN messages \subseteq DOMAIN errors
           /\ \A k \in FieldKeys \ DOMAIN errors : k \notin DOMAIN messages
           /\ \A k \in DOMAIN errors :
                LET v == errors[k]
                IN /\ v.shape \in {"list", "string", "object"}
                        <=> k \in DOMAIN messages
                   /\ v.shape = "list" /\ Len(v.items) > 0
                        => messages[k] = Str(v.items[1])
                   /\ v.shape = "string" => messages[k] = v
                   /\ v.shape = "object" /\ Len(v.items) > 0
                        => LET under == v.items[1].value
                           IN IF under.shape = "list" /\ Len(under.items) > 0
                              THEN messages[k] = Str(under.items[1])
                              ELSE IF under.shape = "list"
                              THEN messages[k] = Undefined
                              ELSE messages[k] = under
                   /\ v.shape \in {"list", "object"} /\ Len(v.items) = 0
                        => messages[k] = Undefined

\* a two-element list under the first of two nested keys has been mapped to
\* its first element, next to a plain string field
C29_Witness ==
    /\ SignupMapped
    /\ probe.input =
         [k \in FieldKeys |->
            IF k = "email"
            THEN Obj(<<[key |-> "detail",
                        value |-> List(<<NotVerifiedText, OtherText>>)],
                       [key |-> "code", value |-> Str(OtherText)]>>)
            ELSE Str(OtherText)]
    /\ probe.out = [k \in FieldKeys |->
                      IF k = "email" THEN Str(NotVerifiedText)
                      ELSE Str(OtherText)]

\* -------------------------------------------------- PasswordStrengthMeter
\* Passwords, names and emails are sequences of characters. A password is
\* typed as at most MaxBlocks of the blocks below.
MaxBlocks == 3

Blocks ==
    {<<"P", "a", "s", "s", "w", "o", "r", "d">>, <<"1", "2", "3">>,
     <<"4", "5", "6", "7", "8">>, <<"B", "o", "b">>, <<"!">>}

RECURSIVE Passwords(_)
Passwords(n) ==
    IF n = 0 THEN {<< >>}
    ELSE LET shorter == Passwords(n - 1)
         IN shorter \cup {pw \o b : pw \in shorter, b \in Blocks}

\* an attribute that is missing is the empty string: both are falsy
Emails == {<< >>, <<"B", "o", "b", "@", "x">>, <<"b", "o", "@", "x">>}

FirstNames == {<< >>, <<"B", "o", "b">>, <<"B", "o">>}

LastNames == {<< >>, <<"W", "o", "r", "d">>}

UpperChars == {"P", "B", "W"}

LowerChars == {"a", "s", "w", "o", "r", "d", "b", "x", "p"}

SpecialChars == {"!", "@"}

\* String.toLowerCase, character by character
LowerChar(c) ==
    CASE c = "P" -> "p" [] c = "B" -> "b" [] c = "W" -> "w" [] OTHER -> c

toLowerCase(text) == [i \in 1..Len(text) |-> LowerChar(text[i])]

\* email.split('@')[0]
BeforeAt(email) ==
    IF \E i \in 1..Len(email) : email[i] = "@"
    THEN SubSeq(email, 1,
                (CHOOSE i \in 1..Len(email) :
                    /\ email[i] = "@"
                    /\ \A j \in 1..(i - 1) : email[j] # "@") - 1)
    ELSE email

Some(text, Test(_)) == \E i \in 1..Len(text) : Test(text[i])

IsLower(c) == c \in LowerChars

IsUpper(c) == c \in UpperChars

IsSpecial(c) == c \in SpecialChars

\* /^\d+$/.test(password)
AllNumeric(password) ==
    Len(password) > 0 /\ \A i \in 1..Len(password) : IsDigit(password[i])

commonPasswords ==
    {<<"p", "a", "s", "s", "w", "o", "r", "d">>,
     <<"p", "a", "s", "s", "w", "o", "r", "d", "1", "2", "3">>,
     <<"1", "2", "3", "4", "5", "6", "7", "8">>,
     <<"1", "2", "3", "4", "5", "6", "7", "8", "9">>,
     <<"q", "w", "e", "r", "t", "y", "1", "2", "3">>,
     <<"a", "b", "c", "1", "2", "3", "4", "5", "6">>,
     <<"p", "a", "s", "s", "w", "o", "r", "d", "1">>,
     <<"w", "e", "l", "c", "o", "m", "e", "1", "2", "3">>}

Max(a, b) == IF a > b THEN a ELSE b

\* one check of the function: the feedback it pushes when it fails, and
\* what it adds to the score when it passes. Scores are counted in halves:
\* 2 is the source's 1, 1 its 0.5.
Check(passed, halves, text) ==
    [feedback |-> IF passed THEN << >> ELSE <<text>>,
     halves |-> IF passed THEN halves ELSE 0]

\* a similarity or common-password finding: feedback, and score - 1
Finding(found, text) ==
    [feedback |-> IF found THEN <<text>> ELSE << >>, found |-> found]

RECURSIVE Deduct(_, _)
\* score = Math.max(0, score - 1) for each finding in turn
Deduct(halves, findings) ==
    IF findings = << >> THEN halves
    ELSE Deduct(IF Head(findings).found THEN Max(0, halves - 2) ELSE halves,
                Tail(findings))

RECURSIVE All(_, _)
All(items, field) ==
    IF items = << >> THEN << >>
    ELSE Head(items)[field] \o All(Tail(items), field)

RECURSIVE Sum(_)
Sum(items) == IF items = << >> THEN 0 ELSE Head(items).halves + Sum(Tail(items))

\* (valid whenever the score is high enough)
ValidByScoreAlone(hasMinLength, isAllNumeric, normalizedScore) ==
    normalizedScore >= 2

\* hasMinLength && !isAllNumeric && normalizedScore >= 2
MeetsMinimum(hasMinLength, isAllNumeric, normalizedScore) ==
    hasMinLength /\ ~isAllNumeric /\ normalizedScore >= 2

validatePasswordStrength(password, email, firstName, lastName) ==
    IF password = << >>
    THEN [score |-> 0, feedback |-> << >>, isValid |-> FALSE]
    ELSE
    LET hasMinLength == Len(password) >= 8
        isAllNumeric == AllNumeric(password)
        lowered == toLowerCase(password)
        checks ==
            <<Check(hasMinLength, 2,
                    "Password must be at least 8 characters long"),
              Check(~isAllNumeric, 2, "Password cannot be entirely numeric"),
              Check(Some(password, IsLower), 1, "Add lowercase letters"),
              Check(Some(password, IsUpper), 1, "Add uppercase letters"),
              Check(Some(password, IsDigit), 1, "Add numbers"),
              Check(Some(password, IsSpecial), 1, "Add special characters")>>
        bonus == (IF Len(password) >= 12 THEN 1 ELSE 0)
                 + (IF Len(password) >= 16 THEN 1 ELSE 0)
        emailParts == BeforeAt(toLowerCase(email))
        findings ==
            <<Finding(/\ email # << >>
                      /\ Includes(lowered, emailParts)
                      /\ Len(emailParts) >= 3,
                      "Password is too similar to your email"),
              Finding(/\ firstName # << >> /\ Len(firstName) >= 3
                      /\ Includes(lowered, toLowerCase(firstName)),
                      "Password is too similar to your first name"),
              Finding(/\ lastName # << >> /\ Len(lastName) >= 3
                      /\ Includes(lowered, toLowerCase(lastName)),
                      "Password is too similar to your last name"),
              Finding(lowered \in commonPasswords,
                      "This password is too common")>>
        halves == Deduct(Sum(checks) + bonus, findings)
        normalizedScore == Min(4, Max(0, halves \div 2))
    IN [score |-> normalizedScore,
        feedback |-> All(checks, "feedback") \o All(findings, "feedback"),
        isValid |-> MeetsMinimum(hasMinLength, isAllNumeric,
                                 normalizedScore)]

\* the line the meter shows under the bar when nothing is left to fix
MeetsAllRequirements(password, strength) ==
    password # << >> /\ Len(strength.feedback) = 0 /\ strength.score >= 2

PasswordInit ==
    /\ localStorage \in StoredAtLoad
    /\ isLoggingOut = FALSE /\ resetTimers = 0 /\ epoch = 0
    /\ location = "/signup"
    /\ task = [t \in Tasks |-> IdleTask]
    /\ window = TRUE /\ calls = << >>
    /\ otp = Unmounted /\ page = Unmounted
    /\ probe \in [fn : {"validatePasswordStrength"},
                  input : [password : Passwords(MaxBlocks), email : Emails,
                           firstName : FirstNames, lastName : LastNames],
                  out : {Pending}]

\* the meter's useMemo runs the function on its props
MeterRenders ==
    /\ probe.fn = "validatePasswordStrength" /\ probe.out = Pending
    /\ probe' = [probe EXCEPT !.out =
                    validatePasswordStrength(probe.input.password,
                                             probe.input.email,
                                             probe.input.firstName,
                                             probe.input.lastName)]
    /\ UNCHANGED <<sessionVars, otp, page>>

PasswordSpec == PasswordInit /\ [][MeterRenders]_vars

Validated == probe.fn = "validatePasswordStrength" /\ probe.out # Pending

\* C30: validatePasswordStrength returns an integer score in 0..4; the empty
\* password gets score 0, no feedback and isValid false; isValid is true
\* only for a password of at least 8 characters that is not entirely numeric
\* and scores at least 2; and a non-empty password with an empty feedback
\* list is valid.
C30_ScoreAndValidity ==
    Validated =>
        LET password == probe.input.password
            strength == probe.out
        IN /\ strength.score \in 0..4
           /\ password = << >>
                => strength = [score |-> 0, feedback |-> << >>,
                               isValid |-> FALSE]
           /\ strength.isValid
                => /\ Len(password) >= 8
                   /\ \E i \in 1..Len(password) : password[i] \notin DigitChars
                   /\ strength.score >= 2
           /\ password # << >> /\ strength.feedback = << >>
                => strength.isValid

\* a password with nothing left to fix has been rated, and the meter shows
\* that it meets all requirements
C30_Witness ==
    /\ Validated
    /\ probe.input.password =
         <<"P", "a", "s", "s", "w", "o", "r", "d", "1", "2", "3", "!">>
    /\ probe.input.firstName = <<"B", "o", "b">>
    /\ probe.out = [score |-> 4, feedback |-> << >>, isValid |-> TRUE]
    /\ MeetsAllRequirements(probe.input.password, probe.out)

\* --------------------------------------- failures of the calls of handlers
\* the UI handlers that await a service call
Handlers ==
    {"loginUser", "SignUp.handleSubmit", "ForgotPassword.handleSubmit",
     "ResetPassword.verifyToken", "ResetPassword.handleSubmit",
     "OTPVerification.handleSubmit", "OTPVerification.handleResendOTP",
     "fetchProspects", "handleDelete", "ProspectForm.handleSubmit"}

\* the prospects endpoints are called with requireAuth left at its default
HandlerRequiresAuth(fn) ==
    fn \in {"fetchProspects", "handleDelete", "ProspectForm.handleSubmit"}

\* what the network can do to the handler's request: fetch rejects, or it
\* resolves with a status and a body
Transports == {Threw} \cup {[status |-> a[1], body |-> a[2]] : a \in Answers}

\* apiClient, and the service function that returns its promise: a rejected
\* fetch and a body that cannot be parsed both reject the promise
apiClient(requireAuth, transport) ==
    IF transport = Threw THEN Threw
    ELSE IF Intercepts401(transport.status, requireAuth) THEN SessionExpired
    ELSE IF transport.body = NotJson THEN Threw
    ELSE transport.body

\* what a handler leaves behind: its loading flag, the toast it showed and
\* whether the rejection left it uncaught
Handled(loading, toast) ==
    [loading |-> loading, toast |-> toast, uncaught |-> FALSE]

Escaped(loading) == [loading |-> loading, toast |-> NoToast, uncaught |-> TRUE]

FailedToast(r, fallback) == Toast("error", Or(r.message, fallback))

ThrewToast == Toast("error", "An error occurred. Please try again.")

\* the envelope as the sign-in form reads it
AsLoginResponse(r) ==
    IF r = Threw THEN Threw
    ELSE [success |-> r.success, data |-> r.data.present,
          message |-> r.message,
          errors |-> IF r.errors = "absent" THEN NoErrors
                     ELSE [NoErrors EXCEPT !.present = TRUE,
                                           !.email = Str(OtherText)]]

\* SignUp.handleSubmit after its await (loading was set before it)
signupSubmit(r) ==
    IF r = Threw THEN Handled(FALSE, ThrewToast)
    ELSE IF r.success THEN Handled(FALSE, Toast("success", r.message))
    ELSE Handled(FALSE, FailedToast(r,
             "Registration failed. Please check your information."))

\* ForgotPassword.handleSubmit after its await: the loader stays up while
\* the page navigates away on success
forgotPasswordSubmit(r) ==
    IF r = Threw THEN Handled(FALSE, ThrewToast)
    ELSE IF r.success THEN Handled(TRUE, Toast("success", r.message))
    ELSE Handled(FALSE, FailedToast(r, "Failed to send password reset OTP"))

\* ResetPassword's mount effect: it has no loading flag
verifyToken(r) ==
    IF r = Threw THEN Handled(FALSE, Toast("error", "Failed to verify token"))
    ELSE IF r.success /\ r.data.present THEN Handled(FALSE, NoToast)
    ELSE Handled(FALSE, FailedToast(r, "Invalid or expired token"))

\* ResetPassword.handleSubmit after its await
resetPasswordSubmit(r) ==
    IF r = Threw THEN Handled(FALSE, ThrewToast)
    ELSE IF r.success THEN Handled(FALSE, Toast("success", r.message))
    ELSE Handled(FALSE, FailedToast(r, "Failed to reset password"))

\* (handleFormSubmit without its catch clause)
FormSubmitRethrows(r) ==
    IF r = Threw THEN Threw
    ELSE IF r.success THEN [kind |-> "undefined"]
    ELSE [kind |-> "map", errors |-> r.errors]

\* what handleFormSubmit resolves with: nothing on success, the field
\* errors on failure, {} from its catch clause
FormSubmitReturns(r) ==
    IF r = Threw THEN [kind |-> "map", errors |-> "empty"]
    ELSE IF r.success THEN [kind |-> "undefined"]
    ELSE [kind |-> "map", errors |-> r.errors]

\* ProspectForm.handleSubmit: setLoading(true), await onSubmit(...) with no
\* try around it, setLoading(false)
formSubmit(r) ==
    IF FormSubmitReturns(r) = Threw THEN Escaped(TRUE)
    ELSE Handled(FALSE, handleFormSubmit(r))

\* the OTP form with a full code entered and the request under way
Verifying ==
    [Mounted("password_reset", FALSE) EXCEPT
        !.slots = [i \in Slots |-> "7"], !.loading = TRUE,
        !.verify = [fn |-> "verifyPasswordResetOTP",
                    code |-> [i \in Slots |-> "7"]]]

Resending ==
    [CooledDown("password_reset", FALSE) EXCEPT !.resendLoading = TRUE]

\* the handler from the point where its service call has settled
Settle(fn, r) ==
    CASE fn = "loginUser" ->
            LET o == loginUser(AsLoginResponse(r))
            IN [loading |-> o.loading, toast |-> o.toast,
                uncaught |-> o.uncaught]
      [] fn = "SignUp.handleSubmit" -> signupSubmit(r)
      [] fn = "ForgotPassword.handleSubmit" -> forgotPasswordSubmit(r)
      [] fn = "ResetPassword.verifyToken" -> verifyToken(r)
      [] fn = "ResetPassword.handleSubmit" -> resetPasswordSubmit(r)
      [] fn = "OTPVerification.handleSubmit" ->
            LET o == AfterVerify(Verifying, r)
            IN Handled(o.loading, o.toast)
      [] fn = "OTPVerification.handleResendOTP" ->
            LET o == AfterResend(Resending, r)
            IN Handled(o.resendLoading, o.toast)
      [] fn = "fetchProspects" ->
            LET o == AfterFetch(StartFetch(PageMounted), 1, r, 1)
            IN Handled(o.loading, o.toast)
      [] fn = "handleDelete" -> Handled(FALSE, handleDelete(r))
      [] fn = "ProspectForm.handleSubmit" -> formSubmit(r)

HandlerInit ==
    /\ localStorage \in StoredAtLoad
    /\ isLoggingOut = FALSE /\ resetTimers = 0 /\ epoch = 0
    /\ location = "/"
    /\ task = [t \in Tasks |-> IdleTask]
    /\ window = TRUE /\ calls = << >>
    /\ otp = Unmounted /\ page = Unmounted
    /\ probe \in [fn : Handlers, input : Transports, out : {Pending}]

\* the request of the handler settles and the handler runs to its end
HandlerSettles ==
    /\ probe.fn \in Handlers /\ probe.out = Pending
    /\ probe' = [probe EXCEPT !.out =
                    Settle(probe.fn,
                           apiClient(HandlerRequiresAuth(probe.fn),
                                     probe.input))]
    /\ UNCHANGED <<sessionVars, otp, page>>

HandlerSpec == HandlerInit /\ [][HandlerSettles]_vars

\* fetch rejected, or the body of the response is not JSON
TransportOrParseFailure(transport) ==
    transport = Threw \/ transport.body = NotJson

\* C21: when the fetch of a handler's service call rejects or its body is
\* not JSON, the handler gets the session-expired envelope (a 401 on an
\* authenticated call, whose body is never read) or shows an error toast;
\* the failure does not leave the handler uncaught, and the handler's
\* loading flag is down afterwards
C21_FailuresAreCaught ==
    (probe.fn \in Handlers /\ probe.out # Pending
        /\ TransportOrParseFailure(probe.input))
    => /\ ~probe.out.uncaught
       /\ ~probe.out.loading
       /\ \/ probe.out.toast[1] = "error"
          \/ /\ probe.input # Threw
             /\ probe.input.status = 401 /\ HandlerRequiresAuth(probe.fn)
             /\ apiClient(TRUE, probe.input) = SessionExpired

\* the prospect form's submission was rejected by the network: the page
\* showed the error toast and the form's loading flag is down
C21_Witness ==
    /\ probe.fn = "ProspectForm.handleSubmit"
    /\ probe.input = Threw
    /\ probe.out = Handled(FALSE, ThrewToast)

====
